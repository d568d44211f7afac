---------------------------- MODULE LibraryPage ----------------------------
(***************************************************************************)
(* The list of documents on the web page (web/app.js): it is loaded when   *)
(* the page is, after an upload, and by a timer as long as it shows a      *)
(* document that is being worked on.                                       *)
(*                                                                         *)
(* The page runs one callback at a time, but several requests are under    *)
(* way at once, and they are served and answered in any order.  The        *)
(* service is what GET /api/documents would answer at the moment: a        *)
(* document is absent, worked on, or has come to its end, ready or failed. *)
(* What others change, and a published document that is worked on again,   *)
(* is left to Lifecycle.                                                   *)
(***************************************************************************)
EXTENDS Naturals, Sequences

CONSTANTS
  Files,         \* documents
  Drops,         \* a sequence of files for each call of uploadFiles
  Connections,   \* bound: the requests for the list that are under way at once, from 1
  MaxLost        \* bound: requests that fail or lose their answer

VARIABLES
  service,    \* what the service would answer now
  listed,     \* state.documents: what the page shows
  polling,    \* state.polling: the timer is on
  lists,      \* the requests for the list, with their answers
  uploads,    \* the calls of uploadFiles
  deletions,  \* the calls of deleteDocument
  excused,    \* history: the last news came out of date, or was lost
  lost        \* the requests lost so far

vars == <<service, listed, polling, lists, uploads, deletions, excused, lost>>

Absent == [d \in Files |-> "absent"]

Idle == [stage |-> "idle", view |-> Absent]

\* An upload comes to its end.
Work(d) ==
  /\ service[d] = "working"
  /\ service' = [service EXCEPT ![d] = "ended"]
  /\ UNCHANGED <<listed, polling, lists, uploads, deletions, excused, lost>>

(***************************************************************************)
(* loadDocuments and renderDocuments.                                      *)
(***************************************************************************)

\* Mutant of Render: the timer needs every document to be worked on.
RenderAllWorking(view) ==
  /\ listed' = view
  /\ polling' = \A d \in Files : view[d] # "ended"

Render(view) ==
  /\ listed' = view
  /\ polling' = \E d \in Files : view[d] = "working"

LoadDocuments ==
  \E c \in Connections :
    /\ lists[c] = Idle
    /\ \A b \in Connections : lists[b] = Idle => c <= b
    /\ lists' = [lists EXCEPT ![c].stage = "sent"]

\* The timer does not wait for the answer to its last request.
Tick ==
  /\ polling /\ LoadDocuments
  /\ UNCHANGED <<service, listed, polling, uploads, deletions, excused, lost>>

ServeList(c) ==
  /\ lists[c].stage = "sent"
  /\ lists' = [lists EXCEPT ![c] = [stage |-> "served", view |-> service]]
  /\ UNCHANGED <<service, listed, polling, uploads, deletions, excused, lost>>

OutOfDate(view) == \E d \in Files : (view[d] = "absent") # (service[d] = "absent")

ListArrives(c) ==
  /\ lists[c].stage = "served"
  /\ Render(lists[c].view)
  /\ excused' = OutOfDate(lists[c].view)
  /\ lists' = [lists EXCEPT ![c] = Idle]
  /\ UNCHANGED <<service, uploads, deletions, lost>>

\* The page reports that the service is unavailable, and shows what it showed.
ListFails(c) ==
  /\ lost < MaxLost /\ lists[c] # Idle
  /\ lists' = [lists EXCEPT ![c] = Idle]
  /\ lost' = lost + 1
  /\ excused' = TRUE
  /\ UNCHANGED <<service, listed, polling, uploads, deletions>>

(***************************************************************************)
(* uploadFiles: one file after the other, and then the list.               *)
(***************************************************************************)
Drop(u) ==
  /\ uploads[u].stage = "idle"
  /\ uploads' = [uploads EXCEPT ![u].stage = "sent"]
  /\ UNCHANGED <<service, listed, polling, lists, deletions, excused, lost>>

File(u) == Drops[u][uploads[u].next]

ServeUpload(u) ==
  /\ uploads[u].stage = "sent"
  /\ service' = [service EXCEPT ![File(u)] = "working"]
  /\ uploads' = [uploads EXCEPT ![u].stage = "served"]
  /\ UNCHANGED <<listed, polling, lists, deletions, excused, lost>>

\* The loop goes on after an error as it does after an answer.
NextFile(u) ==
  uploads' = [uploads EXCEPT ![u] =
                IF @.next < Len(Drops[u]) THEN [stage |-> "sent", next |-> @.next + 1]
                                          ELSE [@ EXCEPT !.stage = "listing"]]

UploadAnswered(u) ==
  /\ uploads[u].stage = "served"
  /\ NextFile(u)
  /\ UNCHANGED <<service, listed, polling, lists, deletions, excused, lost>>

UploadFails(u) ==
  /\ lost < MaxLost /\ uploads[u].stage \in {"sent", "served"}
  /\ NextFile(u)
  /\ lost' = lost + 1
  /\ UNCHANGED <<service, listed, polling, lists, deletions, excused>>

ListUploads(u) ==
  /\ uploads[u].stage = "listing"
  /\ LoadDocuments
  /\ uploads' = [uploads EXCEPT ![u].stage = "done"]
  /\ UNCHANGED <<service, listed, polling, deletions, excused, lost>>

(***************************************************************************)
(* deleteDocument.                                                         *)
(***************************************************************************)
Delete(d) ==
  /\ listed[d] # "absent" /\ deletions[d] = "idle"
  /\ deletions' = [deletions EXCEPT ![d] = "sent"]
  /\ UNCHANGED <<service, listed, polling, lists, uploads, excused, lost>>

\* The document is hidden.  Deleting it again succeeds and changes nothing.
ServeDeletion(d) ==
  /\ deletions[d] = "sent"
  /\ service' = [service EXCEPT ![d] = "absent"]
  /\ deletions' = [deletions EXCEPT ![d] = "served"]
  /\ UNCHANGED <<listed, polling, lists, uploads, excused, lost>>

DeletionAnswered(d) ==
  /\ deletions[d] = "served"
  /\ Render([listed EXCEPT ![d] = "absent"])
  /\ deletions' = [deletions EXCEPT ![d] = "idle"]
  /\ UNCHANGED <<service, lists, uploads, excused, lost>>

\* Also when the document is hidden and its file could not be removed: the row stays.
DeletionFails(d) ==
  /\ lost < MaxLost /\ deletions[d] # "idle"
  /\ excused' = (excused \/ deletions[d] = "served")
  /\ deletions' = [deletions EXCEPT ![d] = "idle"]
  /\ lost' = lost + 1
  /\ UNCHANGED <<service, listed, polling, lists, uploads>>

(***************************************************************************)
(* The page is loaded, and asks for the list.                              *)
(***************************************************************************)
Init ==
  /\ service \in [Files -> {"absent", "working", "ended"}]
  /\ \A u \in DOMAIN Drops : \A i \in DOMAIN Drops[u] : service[Drops[u][i]] = "absent"
  /\ listed = Absent
  /\ polling = FALSE
  /\ lists = [c \in Connections |-> IF c = 1 THEN [Idle EXCEPT !.stage = "sent"] ELSE Idle]
  /\ uploads = [u \in DOMAIN Drops |-> [stage |-> "idle", next |-> 1]]
  /\ deletions = [d \in Files |-> "idle"]
  /\ excused = FALSE
  /\ lost = 0

ListStep(c) == ServeList(c) \/ ListArrives(c)

UploadStep(u) == ServeUpload(u) \/ UploadAnswered(u) \/ ListUploads(u)

DeletionStep(d) == ServeDeletion(d) \/ DeletionAnswered(d)

Next ==
  \/ Tick
  \/ \E c \in Connections : ListStep(c) \/ ListFails(c)
  \/ \E u \in DOMAIN Drops : Drop(u) \/ UploadStep(u) \/ UploadFails(u)
  \/ \E d \in Files : Work(d) \/ Delete(d) \/ DeletionStep(d) \/ DeletionFails(d)

\* The timer fires, a request is served and answered unless it fails, and an
\* upload comes to its end (UploadSettles of Lifecycle).  The user may do nothing.
Fairness ==
  /\ WF_vars(Tick)
  /\ \A c \in Connections : WF_vars(ListStep(c))
  /\ \A u \in DOMAIN Drops : WF_vars(UploadStep(u))
  /\ \A d \in Files : WF_vars(Work(d)) /\ WF_vars(DeletionStep(d))

Spec == Init /\ [][Next]_vars /\ Fairness

(***************************************************************************)
(* Properties.                                                             *)
(***************************************************************************)

Settled ==
  /\ \A d \in Files : listed[d] # "working"
  /\ listed = service \/ excused

\* In the end no row is "working": the timer goes on until the page shows how each
\* document ended, also after lost requests and old lists.  And in the end the
\* page shows what the service has, unless the list that came last left a document
\* out, or had a deleted one, when it came, or an answer was lost: nothing else
\* leaves a document out or shows a deleted one.
PageSettles == <>[]Settled
=============================================================================
