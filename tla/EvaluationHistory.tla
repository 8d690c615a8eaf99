-------------------------- MODULE EvaluationHistory --------------------------
(* JsonEvaluationHistory and its head stores (evaluation/history.py).  Threads  *)
(* of several processes append to and load from histories.  A history is three  *)
(* things on disk: the document, the .pending slot and its entry in the head    *)
(* file, which all histories share.  An append stages the new document in the   *)
(* slot, saves its tag as head, and moves the slot over the document; the whole *)
(* cycle is under the lock of the history, the head file under a lock of its    *)
(* own.  A process may die between any two steps, a file operation may fail,    *)
(* and a document may be put back to an earlier state of itself.                *)
EXTENDS EvaluationTrend, FiniteSets, TLC

CONSTANTS History, Worker, Process,
          Missing,     \* no file
          Torn,        \* a slot whose writer stopped in the middle of write_text
          Home,        \* Home[w] is the process of thread w
          HeadStores,  \* which head stores may be injected, of "file" and "memory"
          FaultKinds,  \* which of "file", "crash" and "putback" may happen
          MaxRequests, \* bound: requests started
          MaxFaults    \* bound: faults

Doc == Seq(Entry)

ASSUME HistoryAssumption ==
    /\ Home \in [Worker -> Process]
    /\ HeadStores \subseteq {"file", "memory"}
    /\ FaultKinds \subseteq {"file", "crash", "putback"}
    /\ None \notin History \cup Worker \cup Process
    /\ "disk" \notin Process
    /\ \A x \in {None, Missing, Torn} : x \notin Doc
    /\ None # Missing /\ None # Torn /\ Missing # Torn
    /\ MaxRequests \in Nat /\ MaxFaults \in Nat

VARIABLES file,      \* file[h]: the published document, or Missing
          pending,   \* pending[h]: the .pending slot
          heads,     \* heads[s][h]: the head saved in store s, or None
          owner,     \* owner[h]: the thread that holds the lock of h, or None
          headOwner, \* the thread that holds the lock of the head file, or None
          pc, local, answer,
          acked,     \* history: acked[h] is the longest document a caller was told of
          restored,  \* history: h was put back and not published since
          headStore, \* the HistoryHeadStore that was injected
          requests, faults

disk == <<file, pending, heads>>
locks == <<owner, headOwner>>
counters == <<requests, faults>>
vars == <<disk, locks, pc, local, answer, acked, restored, headStore, counters>>

Store == {"disk"} \cup Process
StoreOf(w) == IF headStore = "file" THEN "disk" ELSE Home[w]
NoHeads == [h \in History |-> None]

Request == [op: {"append"}, h: History, run: Run, baseline: Run \cup {None}]
           \cup [op: {"load"}, h: History]

Idle == [req |-> None, since |-> <<>>, head |-> None, doc |-> <<>>, copy |-> NoHeads]
NoAnswer == [kind |-> "none"]
Refused == [kind |-> "refused"]
Told(w, doc) == [kind |-> "told", h |-> local[w].req.h, doc |-> doc, since |-> local[w].since]

Init ==
    /\ file = [h \in History |-> Missing]
    /\ pending = [h \in History |-> Missing]
    /\ heads = [s \in Store |-> NoHeads]
    /\ owner = [h \in History |-> None]
    /\ headOwner = None
    /\ pc = [w \in Worker |-> "idle"]
    /\ local = [w \in Worker |-> Idle]
    /\ answer = [w \in Worker |-> NoAnswer]
    /\ acked = [h \in History |-> <<>>]
    /\ restored = [h \in History |-> FALSE]
    /\ headStore \in HeadStores
    /\ requests = 0 /\ faults = 0

HistoryOf(w) == local[w].req.h
Goto(w, place) == pc' = [pc EXCEPT ![w] = place]

\* Mutation: a request that fails keeps its locks.
EndKeepingLocks(w, a) ==
    /\ Goto(w, "idle")
    /\ local' = [local EXCEPT ![w] = Idle]
    /\ answer' = [answer EXCEPT ![w] = a]
    /\ owner' = IF a.kind = "told" THEN [owner EXCEPT ![HistoryOf(w)] = None] ELSE owner
    /\ headOwner' = IF headOwner = w THEN None ELSE headOwner
    /\ acked' = IF a.kind = "told" /\ Len(a.doc) > Len(acked[HistoryOf(w)])
                THEN [acked EXCEPT ![HistoryOf(w)] = a.doc] ELSE acked
(* The request of w ends: its locks are released whatever the outcome. *)
End(w, a) ==
    /\ Goto(w, "idle")
    /\ local' = [local EXCEPT ![w] = Idle]
    /\ answer' = [answer EXCEPT ![w] = a]
    /\ owner' = [owner EXCEPT ![HistoryOf(w)] = None]
    /\ headOwner' = IF headOwner = w THEN None ELSE headOwner
    /\ acked' = IF a.kind = "told" /\ Len(a.doc) > Len(acked[HistoryOf(w)])
                THEN [acked EXCEPT ![HistoryOf(w)] = a.doc] ELSE acked

------------------------------------------------------------------------------
Start(w, req) ==
    /\ pc[w] = "idle" /\ requests < MaxRequests
    /\ requests' = requests + 1
    /\ Goto(w, "lock")
    /\ local' = [local EXCEPT ![w] = [Idle EXCEPT !.req = req, !.since = acked[req.h]]]
    /\ answer' = [answer EXCEPT ![w] = NoAnswer]
    /\ UNCHANGED <<disk, locks, acked, restored, faults>>

Lock(w) ==
    /\ pc[w] = "lock" /\ owner[HistoryOf(w)] = None
    /\ owner' = [owner EXCEPT ![HistoryOf(w)] = w]
    /\ Goto(w, "head")
    /\ UNCHANGED <<disk, headOwner, local, answer, acked, restored, counters>>

(* load_head; in the file store it waits for the lock of the head file. *)
LoadHead(w) ==
    /\ pc[w] = "head" /\ (headStore = "file" => headOwner = None)
    /\ local' = [local EXCEPT ![w].head = heads[StoreOf(w)][HistoryOf(w)]]
    /\ Goto(w, "recover")
    /\ UNCHANGED <<disk, locks, answer, acked, restored, counters>>

\* Mutation: a slot left behind is dropped whatever it holds.
DropPending(w) ==
    /\ pc[w] = "recover"
    /\ pending' = [pending EXCEPT ![HistoryOf(w)] = Missing]
    /\ Goto(w, "read")
    /\ UNCHANGED <<file, heads, locks, local, answer, acked, restored, counters>>
(* _recover_pending: a slot whose tag is the head is published, any other slot  *)
(* is dropped.                                                                  *)
RecoverPending(w) ==
    LET h == HistoryOf(w) IN
    /\ pc[w] = "recover"
    /\ pending' = [pending EXCEPT ![h] = Missing]
    /\ IF pending[h] \notin {Missing, Torn} /\ pending[h] = local[w].head
       THEN file' = [file EXCEPT ![h] = pending[h]] /\ restored' = [restored EXCEPT ![h] = FALSE]
       ELSE UNCHANGED <<file, restored>>
    /\ Goto(w, "read")
    /\ UNCHANGED <<heads, locks, local, answer, acked, counters>>

\* Mutation: any document with valid records is loaded, whatever the head.
LoadsAnyValid(f, head) == f # Missing => Valid(f)
(* _load_locked after recovery: the document that is loaded, if any. *)
Loads(f, head) ==
    CASE f = Missing -> head \in {None, <<>>}
      [] OTHER       -> Valid(f) /\ head # None /\ head = f
LoadedDoc(f) == IF f = Missing THEN <<>> ELSE f

ReadRefused(w) ==
    /\ pc[w] = "read" /\ ~Loads(file[HistoryOf(w)], local[w].head)
    /\ End(w, Refused)
    /\ UNCHANGED <<disk, restored, counters>>

ReadLoaded(w) ==
    LET doc == LoadedDoc(file[HistoryOf(w)]) IN
    /\ pc[w] = "read" /\ Loads(file[HistoryOf(w)], local[w].head)
    /\ local[w].req.op = "load"
    /\ End(w, Told(w, doc))
    /\ UNCHANGED <<disk, restored, counters>>

ReadForAppend(w) ==
    LET doc == LoadedDoc(file[HistoryOf(w)])
        req == local[w].req
    IN  /\ pc[w] = "read" /\ Loads(file[HistoryOf(w)], local[w].head)
        /\ req.op = "append"
        /\ IF Acceptable(doc, req.run, req.baseline)
           THEN /\ local' = [local EXCEPT ![w].doc = Appended(doc, req.run, req.baseline)]
                /\ Goto(w, "stage")
                /\ UNCHANGED <<locks, answer, acked>>
           ELSE End(w, Refused)
        /\ UNCHANGED <<disk, restored, counters>>

(* _write, in the order of the code.  write_text first empties the slot. *)
Stage(w) ==
    /\ pc[w] = "stage"
    /\ pending' = [pending EXCEPT ![HistoryOf(w)] = Torn]
    /\ Goto(w, "staging")
    /\ UNCHANGED <<file, heads, locks, local, answer, acked, restored, counters>>

Staged(w) ==
    /\ pc[w] = "staging"
    /\ pending' = [pending EXCEPT ![HistoryOf(w)] = local[w].doc]
    /\ Goto(w, "save")
    /\ UNCHANGED <<file, heads, locks, local, answer, acked, restored, counters>>

\* Mutation: the heads are read before the lock of their file is taken.
ReadHeadsUnlocked(w) ==
    /\ pc[w] = "save" /\ headStore = "file"
    /\ local' = [local EXCEPT ![w].copy = heads[StoreOf(w)]]
    /\ Goto(w, "saving")
    /\ UNCHANGED <<disk, locks, answer, acked, restored, counters>>
(* save_head of the file store: the file is read under its lock ... *)
ReadHeads(w) ==
    /\ pc[w] = "save" /\ headStore = "file" /\ headOwner = None
    /\ headOwner' = w
    /\ local' = [local EXCEPT ![w].copy = heads[StoreOf(w)]]
    /\ Goto(w, "saving")
    /\ UNCHANGED <<disk, owner, answer, acked, restored, counters>>

(* ... and replaced by the copy with the one entry changed. *)
ReplaceHeads(w) ==
    /\ pc[w] = "saving"
    /\ heads' = [heads EXCEPT ![StoreOf(w)] =
                    [local[w].copy EXCEPT ![HistoryOf(w)] = local[w].doc]]
    /\ headOwner' = None
    /\ Goto(w, "publish")
    /\ UNCHANGED <<file, pending, owner, local, answer, acked, restored, counters>>

SaveInMemory(w) ==
    /\ pc[w] = "save" /\ headStore = "memory"
    /\ heads' = [heads EXCEPT ![StoreOf(w)][HistoryOf(w)] = local[w].doc]
    /\ Goto(w, "publish")
    /\ UNCHANGED <<file, pending, locks, local, answer, acked, restored, counters>>

Publish(w) ==
    LET h == HistoryOf(w) IN
    /\ pc[w] = "publish"
    /\ file' = [file EXCEPT ![h] = pending[h]]
    /\ pending' = [pending EXCEPT ![h] = Missing]
    /\ restored' = [restored EXCEPT ![h] = FALSE]
    /\ End(w, Told(w, local[w].doc))
    /\ UNCHANGED <<heads, counters>>

------------------------------------------------------------------------------
Fault(kind) == kind \in FaultKinds /\ faults < MaxFaults /\ faults' = faults + 1

(* A file operation raises: the request is refused, the files stay as they are. *)
FileFails(w) ==
    /\ Fault("file")
    /\ pc[w] \in {"head", "recover", "read", "stage", "staging", "save", "saving", "publish"}
    /\ headStore = "memory" => pc[w] \notin {"head", "save"}
    /\ End(w, Refused)
    /\ UNCHANGED <<disk, restored, requests>>

(* The process ends: its threads and OS locks are gone, heads in memory too. *)
Crash(p) ==
    LET dead == {w \in Worker : Home[w] = p}
        free(o) == IF o \in dead THEN None ELSE o
    IN  /\ Fault("crash")
        /\ pc' = [w \in Worker |-> IF w \in dead THEN "idle" ELSE pc[w]]
        /\ local' = [w \in Worker |-> IF w \in dead THEN Idle ELSE local[w]]
        /\ answer' = [w \in Worker |-> IF w \in dead THEN NoAnswer ELSE answer[w]]
        /\ owner' = [h \in History |-> free(owner[h])]
        /\ headOwner' = free(headOwner)
        /\ heads' = IF headStore = "memory" THEN [heads EXCEPT ![p] = NoHeads] ELSE heads
        /\ UNCHANGED <<file, pending, acked, restored, requests>>

(* Somebody puts the document back to what it once was, or removes it.  Heads in *)
(* memory vouch for one process only and are not put to this test.              *)
PutBack(h) ==
    /\ Fault("putback") /\ headStore = "file" /\ file[h] # Missing
    /\ \E n \in 0..(Len(file[h]) - 1) :
          file' = [file EXCEPT ![h] = IF n = 0 THEN Missing ELSE SubSeq(@, 1, n)]
    /\ restored' = [restored EXCEPT ![h] = TRUE]
    /\ UNCHANGED <<pending, heads, locks, pc, local, answer, acked, requests>>

Step(w) ==
    \/ Lock(w) \/ LoadHead(w) \/ RecoverPending(w)
    \/ ReadRefused(w) \/ ReadLoaded(w) \/ ReadForAppend(w)
    \/ Stage(w) \/ Staged(w) \/ ReadHeads(w) \/ ReplaceHeads(w) \/ SaveInMemory(w)
    \/ Publish(w)

Next ==
    /\ \/ \E w \in Worker : Step(w) \/ FileFails(w) \/ \E req \in Request : Start(w, req)
       \/ \E p \in Process : Crash(p)
       \/ \E h \in History : PutBack(h)
    /\ UNCHANGED headStore

Spec == Init /\ [][Next]_vars

FairSpec == Spec /\ \A w \in Worker : WF_vars(Step(w) /\ UNCHANGED headStore)

------------------------------------------------------------------------------
Local == [req: Request \cup {None}, since: Doc, head: Doc \cup {None}, doc: Doc,
          copy: [History -> Doc \cup {None}]]
Answer == {NoAnswer, Refused} \cup [kind: {"told"}, h: History, doc: Doc, since: Doc]

TypeOK ==
    /\ file \in [History -> Doc \cup {Missing}]
    /\ pending \in [History -> Doc \cup {Missing, Torn}]
    /\ heads \in [Store -> [History -> Doc \cup {None}]]
    /\ owner \in [History -> Worker \cup {None}]
    /\ headOwner \in Worker \cup {None}
    /\ pc \in [Worker -> {"idle", "lock", "head", "recover", "read", "stage", "staging",
                          "save", "saving", "publish"}]
    /\ local \in [Worker -> Local]
    /\ \A w \in Worker : pc[w] # "idle" => local[w].req \in Request
    /\ answer \in [Worker -> Answer]
    /\ acked \in [History -> Doc]
    /\ restored \in [History -> BOOLEAN]
    /\ headStore \in {"file", "memory"}
    /\ requests \in 0..MaxRequests /\ faults \in 0..MaxFaults

HeadDoc(h) == IF heads["disk"][h] = None THEN <<>> ELSE heads["disk"][h]

(* Wherever the process dies - in the middle of staging, between head and        *)
(* document, in the middle of a recovery - the next load finds exactly the       *)
(* document whose head was saved last, unless the document was put back by hand; *)
(* and whatever was offered in whatever order, its records can be drawn as one   *)
(* trend.                                                                        *)
AlwaysReadable ==
    headStore = "file" =>
        \A h \in History :
            LET head == heads["disk"][h]
                f    == IF pending[h] = head THEN pending[h] ELSE file[h]
            IN  ~restored[h] => /\ Loads(f, head) /\ LoadedDoc(f) = HeadDoc(h)
                                /\ Comparable(HeadDoc(h))

(* A caller is never told of a document that lacks a record another caller had   *)
(* been told of before the request began: no append is lost to a concurrent one, *)
(* to a crash, or to an old document put back in its place.                      *)
FreshAnswers ==
    \A w \in Worker : answer[w].kind = "told" => IsPrefix(answer[w].since, answer[w].doc)

(* Seen from the saved heads, histories are append-only logs: an append takes    *)
(* effect when its head is saved, once, and touches no other history.            *)
Log == INSTANCE AppendLog WITH log <- [h \in History |-> HeadDoc(h)]
ImplementsAppendLog == Log!Spec

(* Every request ends, or its process does: the two locks never block each other *)
(* and no death or failure leaves one of them held.                              *)
EveryRequestEnds == \A w \in Worker : pc[w] # "idle" ~> pc[w] = "idle"
==============================================================================
