------------------------------- MODULE ListPages -------------------------------
(***************************************************************************)
(* The lists of tables and of drivers (pages/TableListPage.svelte,         *)
(* pages/DriverListPage.svelte) with the favourites and the recently       *)
(* opened items, which the page keeps in memory and the host in files.     *)
(*                                                                         *)
(* Both pages ask for the favourites, the recent items and the definitions *)
(* without waiting in between, and write on every change without waiting   *)
(* for the answer.  The queue of the bridge executes the calls in order.   *)
(***************************************************************************)
EXTENDS Naturals, Sequences, FiniteSets, SequencesExt

CONSTANTS Kinds,          \* tables, drivers
          Items, ItemCategory, Categories,
          MaxRecent,      \* 5 tables, 10 drivers
          MaxListCalls    \* bound: calls in the queue

VARIABLES listPage,       \* the page that is shown
          files,          \* per kind, what the host keeps
          listCalls,      \* the queue of the bridge
          misread         \* kinds whose file could not be read or written (a history variable)

listVars == <<listPage, files, listCalls, misread>>

ASSUME CategoryAssumption == ItemCategory \in [Items -> Categories]

Nowhere == "none"

NoList == [kind |-> Nowhere, favs |-> {}, recent |-> <<>>, items |-> {}, loading |-> FALSE, filter |-> Nowhere]

ListInit ==
  /\ listPage = NoList
  /\ files \in [Kinds -> [favs : SUBSET Items, recent : {<<>>}]]
  /\ listCalls = <<>>
  /\ misread = {}

ListCall(kind, op, arg) == [kind |-> kind, op |-> op, arg |-> arg]

\* A mutation: the definitions come first, so the list is shown before the favourites.
MountListFirst(kind) ==
  /\ listPage.kind = Nowhere /\ Len(listCalls) < MaxListCalls
  /\ listPage' = [NoList EXCEPT !.kind = kind, !.loading = TRUE]
  /\ listCalls' = listCalls \o <<ListCall(kind, "items", {}), ListCall(kind, "favs", {}),
                                 ListCall(kind, "recent", <<>>)>>
  /\ UNCHANGED <<files, misread>>

\* onMount.
MountList(kind) ==
  /\ listPage.kind = Nowhere /\ Len(listCalls) < MaxListCalls
  /\ listPage' = [NoList EXCEPT !.kind = kind, !.loading = TRUE]
  /\ listCalls' = listCalls \o <<ListCall(kind, "favs", {}), ListCall(kind, "recent", <<>>),
                                 ListCall(kind, "items", {})>>
  /\ UNCHANGED <<files, misread>>

\* The page goes; the answers it still waits for change nothing that is shown.
LeaveList ==
  /\ listPage.kind # Nowhere
  /\ listPage' = NoList
  /\ listCalls' = [k \in DOMAIN listCalls |->
                     IF listCalls[k].op \in {"favs", "recent", "items"}
                     THEN [listCalls[k] EXCEPT !.op = "unheard"] ELSE listCalls[k]]
  /\ UNCHANGED <<files, misread>>

\* What is listed: items of the category, favourites in a section of their own
\* while nothing is filtered.
Filtered == {i \in listPage.items : listPage.filter \in {Nowhere, ItemCategory[i]}}
FavouriteSection == IF listPage.filter = Nowhere THEN Filtered \cap listPage.favs ELSE {}
MainSection == IF FavouriteSection # {} THEN Filtered \ listPage.favs ELSE Filtered

Listed(item) == ~listPage.loading /\ item \in FavouriteSection \cup MainSection

FilterList ==
  /\ listPage.kind # Nowhere
  /\ \E c \in Categories \cup {Nowhere} : listPage' = [listPage EXCEPT !.filter = c]
  /\ UNCHANGED <<files, listCalls, misread>>

ToggleFavourite(item) ==
  /\ Listed(item) /\ Len(listCalls) < MaxListCalls
  /\ LET favs == IF item \in listPage.favs THEN listPage.favs \ {item} ELSE listPage.favs \cup {item}
     IN  /\ listPage' = [listPage EXCEPT !.favs = favs]
         /\ listCalls' = Append(listCalls, ListCall(listPage.kind, "saveFavs", favs))
  /\ UNCHANGED <<files, misread>>

\* trackRecent: the item first, once, and only so many.
SelectItem(item) ==
  /\ Listed(item) /\ Len(listCalls) < MaxListCalls
  /\ LET others == SelectSeq(listPage.recent, LAMBDA i : i # item)
         all == <<item>> \o others
         recent == SubSeq(all, 1, IF Len(all) > MaxRecent THEN MaxRecent ELSE Len(all))
     IN  listCalls' = Append([k \in DOMAIN listCalls |->
                                IF listCalls[k].op \in {"favs", "recent", "items"}
                                THEN [listCalls[k] EXCEPT !.op = "unheard"] ELSE listCalls[k]],
                             ListCall(listPage.kind, "saveRecent", recent))
  /\ listPage' = NoList   \* the editor of the item is shown
  /\ UNCHANGED <<files, misread>>

ListAnswer(call) ==
  CASE call.op = "favs" -> [listPage EXCEPT !.favs = files[call.kind].favs]
    [] call.op = "recent" -> [listPage EXCEPT !.recent = files[call.kind].recent]
    [] call.op = "items" -> [listPage EXCEPT !.items = Items, !.loading = FALSE]
    [] OTHER -> listPage

ListAnswered ==
  /\ listCalls # <<>>
  /\ LET call == listCalls[1]
     IN  /\ listPage' = ListAnswer(call)
         /\ files' = CASE call.op = "saveFavs" -> [files EXCEPT ![call.kind].favs = call.arg]
                       [] call.op = "saveRecent" -> [files EXCEPT ![call.kind].recent = call.arg]
                       [] OTHER -> files
  /\ listCalls' = Tail(listCalls)
  /\ UNCHANGED misread

\* A call that fails is best effort; the list is shown all the same.
ListCallFails ==
  /\ listCalls # <<>>
  /\ listPage' = IF listCalls[1].op = "items" THEN [listPage EXCEPT !.loading = FALSE] ELSE listPage
  /\ misread' = misread \cup {listCalls[1].kind}
  /\ listCalls' = Tail(listCalls)
  /\ UNCHANGED files

ListUser ==
  \/ LeaveList \/ FilterList
  \/ \E kind \in Kinds : MountList(kind)
  \/ \E item \in Items : ToggleFavourite(item) \/ SelectItem(item)

ListMoves == ListAnswered \/ ListCallFails

------------------------------------------------------------------------------
(* Properties.                                                              *)

\* The shape of the variables.
ListTypeOK ==
  /\ listPage.kind \in Kinds \cup {Nowhere}
  /\ listPage.favs \subseteq Items /\ listPage.items \subseteq Items
  /\ \A kind \in Kinds : files[kind].favs \subseteq Items

\* Once the calls are done the host keeps what the page shows, unless one of
\* them failed: a favourite must not be toggled on a list whose favourites are
\* still to come, or the ones in the file are lost.
FavouritesKept ==
  listCalls = <<>> /\ listPage.kind # Nowhere /\ listPage.kind \notin misread
    => listPage.favs = files[listPage.kind].favs

\* A recent item is listed once, however often it was opened.
RecentOnce ==
  \A kind \in Kinds : /\ IsInjective(files[kind].recent)
                      /\ Len(files[kind].recent) <= MaxRecent

\* Nothing is listed twice, and nothing that passes the filter is left out.
SectionsPartition ==
  /\ FavouriteSection \cap MainSection = {}
  /\ FavouriteSection \cup MainSection = Filtered

ListsAgree == FavouritesKept /\ RecentOnce /\ SectionsPartition
================================================================================
