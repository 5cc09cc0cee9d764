----------------------------- MODULE ApprovalBanner ----------------------------
(***************************************************************************)
(* The banner of the host that asks the user whether a device may mirror   *)
(* the dashboard (lib/companion/ApprovalBanner.svelte).  It shows one      *)
(* request, the last that came; a decision is a call to the server that    *)
(* names the device, and the banner goes when the call answers, whoever it *)
(* shows by then.                                                          *)
(*                                                                         *)
(* A request is known by its number, in the order they came; a device may  *)
(* have several.  The server is external here: it gives the decision to    *)
(* any waiting request of the device, and may end a request by itself.     *)
(***************************************************************************)
EXTENDS Naturals, Sequences

CONSTANTS Devices,        \* devices that may ask
          MaxAsks,        \* bound: requests
          DecisionWindow  \* ticks a request is shown before it is denied

VARIABLES banner,
          requests  \* every request, with what was decided on it and the ticks
                    \* it stood on the banner (history)

bannerVars == <<banner, requests>>

Nobody == 0   \* no request
Hidden == [shown |-> Nobody, left |-> 0, acting |-> Nobody, approve |-> FALSE]

BannerInit == banner = Hidden /\ requests = <<>>

Request(d) == [device |-> d, state |-> "waiting", decided |-> <<>>, stood |-> 0]

\* A mutation: a decision under way does not keep another one out.
DecideAgain(approve, by) ==
  /\ banner.shown # Nobody
  /\ banner' = [banner EXCEPT !.acting = banner.shown, !.approve = approve]
  /\ requests' = [requests EXCEPT ![banner.shown].decided = Append(@, by)]

\* decide: one decision at a time.
Decide(approve, by) ==
  /\ banner.shown # Nobody /\ banner.acting = Nobody
  /\ banner' = [banner EXCEPT !.acting = banner.shown, !.approve = approve]
  /\ requests' = [requests EXCEPT ![banner.shown].decided = Append(@, by)]

\* The buttons; they are off while a decision is under way.
PressDecision == \E approve \in BOOLEAN : Decide(approve, "user")

\* A mutation: the new request gets what is left of the time of the one before.
DeviceAsksLate(d) ==
  /\ Len(requests) < MaxAsks
  /\ requests' = Append(requests, Request(d))
  /\ banner' = [banner EXCEPT !.shown = Len(requests'),
                              !.left = IF banner.shown = Nobody THEN DecisionWindow ELSE @]

\* A device asks: the new request takes the banner and its time.
DeviceAsks(d) ==
  /\ Len(requests) < MaxAsks
  /\ requests' = Append(requests, Request(d))
  /\ banner' = [banner EXCEPT !.shown = Len(requests'), !.left = DecisionWindow]

\* A mutation: the countdown does not stop at zero.
TickPastZero ==
  /\ banner.shown # Nobody
  /\ \/ banner' = [banner EXCEPT !.left = @ - 1] /\ UNCHANGED requests
     \/ banner.left = 0 /\ Decide(FALSE, "clock")

\* The ticker: the countdown, and the denial when it has run out.
BannerTick ==
  /\ banner.shown # Nobody
  /\ \/ /\ banner.left > 0
        /\ banner' = [banner EXCEPT !.left = @ - 1]
        /\ requests' = [requests EXCEPT ![banner.shown].stood = @ + 1]
     \/ banner.left = 0 /\ Decide(FALSE, "clock")

AsksOf(d) == {r \in DOMAIN requests : requests[r].device = d /\ requests[r].state = "waiting"}

\* The server decides a waiting request of the device; an approval beyond the
\* cap is a denial; without one it does nothing.
ServerDecides(d, approve) ==
  IF AsksOf(d) = {} THEN UNCHANGED requests
  ELSE \E r \in AsksOf(d), outcome \in (IF approve THEN {"approved", "denied"} ELSE {"denied"}) :
         requests' = [requests EXCEPT ![r].state = outcome]

\* The call answers, or fails and decides nothing: the banner hides either way.
DecisionAnswered ==
  /\ banner.acting # Nobody
  /\ ServerDecides(requests[banner.acting].device, banner.approve) \/ UNCHANGED requests
  /\ banner' = Hidden

\* The server gives a request up: its socket closed, or its own time ran out.
RequestEnds(r) ==
  /\ requests[r].state = "waiting"
  /\ requests' = [requests EXCEPT ![r].state = "ended"]
  /\ UNCHANGED banner

BannerMoves ==
  \/ PressDecision \/ BannerTick \/ DecisionAnswered
  \/ \E d \in Devices : DeviceAsks(d)
  \/ \E r \in DOMAIN requests : RequestEnds(r)

------------------------------------------------------------------------------
(* Properties.                                                              *)

\* The shape of the variables.
BannerTypeOK ==
  /\ banner \in [shown : 0..MaxAsks, left : 0..DecisionWindow, acting : 0..MaxAsks,
                 approve : BOOLEAN]
  /\ \A r \in DOMAIN requests :
       requests[r].device \in Devices
       /\ requests[r].state \in {"waiting", "approved", "denied", "ended"}

\* Each request is decided once at most, so a denial by the clock never follows a
\* late approval; and the clock denies a request only after that request had the
\* banner for the whole time, not one that took the place of an older request.
DecidedOnce ==
  \A r \in DOMAIN requests :
    /\ Len(requests[r].decided) <= 1
    /\ requests[r].decided = <<"clock">> => requests[r].stood = DecisionWindow

\* The server decides only requests a decision was made on.  The code breaks it:
\* the call names the device, and another request of that device may get it.
DecisionIsOfRequest ==
  \A r \in DOMAIN requests :
    requests[r].state \in {"approved", "denied"} => requests[r].decided # <<>>

\* A request leaves the banner decided or replaced by a newer one.  The code breaks
\* it: the answer to an older decision hides the request that came meanwhile.
HiddenIsDecided ==
  [][banner.shown # Nobody /\ banner'.shown = Nobody
       => requests[banner.shown].decided # <<>>]_bannerVars
==============================================================================
