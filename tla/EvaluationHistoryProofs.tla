----------------------- MODULE EvaluationHistoryProofs -----------------------
(* Proofs about EvaluationHistory, for any histories, threads, processes, runs, *)
(* head stores and faults, and any number of them.                              *)
EXTENDS EvaluationHistory, SequenceTheorems, TLAPS

------------------------------------------------------------------------------
(* Prefixes. *)

\* A document is a prefix of those that begin with its records.
LEMMA PrefixMeans ==
  ASSUME NEW S, NEW s \in Seq(S), NEW t \in Seq(S)
  PROVE  IsPrefix(s, t) <=> Len(s) <= Len(t) /\ \A i \in 1..Len(s) : s[i] = t[i]
<1>1. Len(s) \in Nat /\ Len(t) \in Nat
  OBVIOUS
<1>2. SubSeq(s, 1, Len(s)) = s
  BY SubSeqFull
<1>3. CASE Len(s) <= Len(t)
  <2>1. /\ SubSeq(t, 1, Len(s)) \in Seq(S) /\ Len(SubSeq(t, 1, Len(s))) = Len(s)
        /\ \A i \in 1..Len(s) : SubSeq(t, 1, Len(s))[i] = t[i]
    BY <1>1, <1>3
  <2>2. SubSeq(t, 1, Len(s)) = s <=> \A i \in 1..Len(s) : s[i] = t[i]
    BY <2>1, SeqEqual
  <2> QED
    BY <1>2, <1>3, <2>2 DEF IsPrefix
<1> QED
  BY <1>3 DEF IsPrefix

LEMMA PrefixReflexive ==
  ASSUME NEW S, NEW s \in Seq(S)
  PROVE  IsPrefix(s, s) /\ IsPrefix(<<>>, s)
<1>1. <<>> \in Seq(S) /\ Len(<<>>) = 0 /\ Len(s) \in Nat
  OBVIOUS
<1>2. IsPrefix(s, s)
  BY <1>1, PrefixMeans
<1>3. IsPrefix(<<>>, s)
  <2>1. SubSeq(<<>>, 1, 0) = <<>> /\ SubSeq(s, 1, 0) = <<>>
    BY <1>1, SubSeqEmpty
  <2> QED
    BY <1>1, <2>1 DEF IsPrefix
<1> QED
  BY <1>2, <1>3

LEMMA PrefixTransitive ==
  ASSUME NEW S, NEW s \in Seq(S), NEW t \in Seq(S), NEW u \in Seq(S),
         IsPrefix(s, t), IsPrefix(t, u)
  PROVE  IsPrefix(s, u)
<1>1. Len(s) \in Nat /\ Len(t) \in Nat /\ Len(u) \in Nat
  OBVIOUS
<1> QED
  BY <1>1, PrefixMeans

LEMMA PrefixOfAppend ==
  ASSUME NEW S, NEW s \in Seq(S), NEW e \in S
  PROVE  IsPrefix(s, Append(s, e))
<1>1. /\ Append(s, e) \in Seq(S) /\ Len(s) \in Nat /\ Len(Append(s, e)) = Len(s) + 1
      /\ \A i \in 1..Len(s) : Append(s, e)[i] = s[i]
  BY AppendProperties
<1>2. IsPrefix(s, Append(s, e)) <=>
        Len(s) <= Len(Append(s, e)) /\ \A i \in 1..Len(s) : s[i] = Append(s, e)[i]
  BY <1>1, PrefixMeans
<1> QED
  BY <1>1, <1>2

------------------------------------------------------------------------------
(* Records. *)

\* An accepted run becomes a record (history.py:651-677).
LEMMA AppendedType ==
  ASSUME NEW doc \in Doc, NEW run \in Run, NEW baseline \in Run \cup {None}
  PROVE  /\ NewRecord(run, baseline) \in Entry
         /\ Appended(doc, run, baseline) \in Doc
         /\ Appended(doc, run, baseline) # <<>>
         /\ Len(Appended(doc, run, baseline)) = Len(doc) + 1
         /\ \A i \in 1..Len(doc) : Appended(doc, run, baseline)[i] = doc[i]
         /\ Appended(doc, run, baseline)[Len(doc) + 1] = NewRecord(run, baseline)
         /\ IsPrefix(doc, Appended(doc, run, baseline))
<1>1. NewRecord(run, baseline) \in Entry
  BY DEF NewRecord, Entry
<1> QED
  BY <1>1, AppendProperties, PrefixOfAppend DEF Appended, Doc

\* A run id occurs once in a valid document.
LEMMA ValidIds ==
  ASSUME NEW doc \in Doc, Valid(doc), NEW i \in DOMAIN doc, NEW j \in DOMAIN doc,
         doc[i].run.id = doc[j].run.id
  PROVE  i = j
<1>1. Len(doc) \in Nat /\ i \in 1..Len(doc) /\ j \in 1..Len(doc)
  BY DEF Doc
<1>2. \A a, b \in 1..Len(doc) : a < b => doc[b].run.id # doc[a].run.id
  <2> SUFFICES ASSUME NEW a \in 1..Len(doc), NEW b \in 1..Len(doc), a < b
               PROVE  doc[b].run.id # doc[a].run.id
    OBVIOUS
  <2>1. a \in 1..(b - 1) /\ b \in DOMAIN doc
    BY <1>1 DEF Doc
  <2> QED
    BY <2>1 DEF Valid, ValidRecord
<1> QED
  BY <1>1, <1>2

\* What append accepts, loading accepts again: an accepted run leaves a document
\* valid (history.py:399-456, 609-677).
LEMMA AppendedValid ==
  ASSUME NEW doc \in Doc, NEW run \in Run, NEW baseline \in Run \cup {None},
         Valid(doc), Acceptable(doc, run, baseline)
  PROVE  Valid(Appended(doc, run, baseline))
<1> DEFINE new == Appended(doc, run, baseline)
           n == Len(doc) + 1
<1>1. /\ new \in Doc /\ Len(doc) \in Nat /\ Len(new) = n
      /\ \A i \in 1..Len(doc) : new[i] = doc[i]
      /\ new[n] = NewRecord(run, baseline)
  BY AppendedType DEF Doc
<1>2. DOMAIN doc = 1..Len(doc) /\ DOMAIN new = 1..n
  BY <1>1 DEF Doc
<1> HIDE DEF new
<1>3. ASSUME NEW i \in 1..Len(doc) PROVE ValidRecord(new, i)
  <2>1. ValidRecord(doc, i)
    BY <1>2 DEF Valid
  <2>2. i \in 1..Len(doc) /\ \A j \in 1..(i - 1) : new[j] = doc[j]
    BY <1>1
  <2>3. {new[j].run.id : j \in 1..(i - 1)} = {doc[j].run.id : j \in 1..(i - 1)}
    BY <2>2
  <2>4. ASSUME NEW id \in {doc[j].run.id : j \in 1..(i - 1)}
        PROVE  SummaryBefore(new, i, id) = SummaryBefore(doc, i, id)
    <3>1. PICK j \in 1..(i - 1) : doc[j].run.id = id
      OBVIOUS
    <3>2. \A k \in 1..(i - 1) : doc[k].run.id = id => k = j
      BY <1>1, <1>2, <3>1, ValidIds
    <3>3. (CHOOSE k \in 1..(i - 1) : doc[k].run.id = id) = j
      BY <3>1, <3>2
    <3>4. (CHOOSE k \in 1..(i - 1) : new[k].run.id = id) = j
      BY <2>2, <3>1, <3>2
    <3> QED
      BY <2>2, <3>3, <3>4 DEF SummaryBefore
  <2> QED
    BY <1>1, <2>1, <2>3, <2>4 DEF ValidRecord
<1>4. ValidRecord(new, n)
  <2>1. \A j \in 1..(n - 1) : new[j] = doc[j] /\ j \in DOMAIN doc
    BY <1>1, <1>2
  <2>2. {new[j].run.id : j \in 1..(n - 1)} = Ids(doc)
    BY <1>1, <1>2, <2>1 DEF Ids
  <2>3. run.id \notin Ids(doc) /\ new[n].run = run
    BY <1>1 DEF Acceptable, NewRecord
  <2>4. CASE baseline = None
    BY <1>1, <2>2, <2>3, <2>4 DEF ValidRecord, NewRecord
  <2>5. CASE baseline # None
    <3>1. PICK i \in 1..Len(doc) : doc[i].run = baseline
      BY <1>2, <2>5 DEF Acceptable, Persisted
    <3>2. new[n].baseline = baseline.id /\ new[n].verdict = SummaryGate(baseline, run)
      BY <1>1, <2>5 DEF NewRecord
    <3>3. baseline.id # None
      BY <2>5, TrendAssumption
    <3>4. baseline.id \in Ids(doc)
      BY <1>2, <3>1 DEF Ids
    <3>5. \A j \in 1..Len(doc) : doc[j].run.id = baseline.id => j = i
      BY <1>2, <3>1, ValidIds
    <3>6. SummaryBefore(new, n, baseline.id) = baseline
      <4>1. (CHOOSE j \in 1..(n - 1) : new[j].run.id = baseline.id) = i
        BY <1>1, <2>1, <3>1, <3>5
      <4> QED
        BY <1>1, <3>1, <4>1 DEF SummaryBefore
    <3>7. LET v == SummaryGate(baseline, run)
          IN  v.allowed = (v.reasons = {}) /\ ~(v.p0 /\ v.allowed)
      BY DEF SummaryGate
    <3> QED
      BY <2>2, <2>3, <3>2, <3>3, <3>4, <3>6, <3>7 DEF ValidRecord
  <2> QED
    BY <2>4, <2>5
<1> QED
  BY <1>1, <1>2, <1>3, <1>4 DEF Valid, new

\* ... and leaves it one trend (history.py:679-699).
LEMMA AppendedComparable ==
  ASSUME NEW doc \in Doc, NEW run \in Run, NEW baseline \in Run \cup {None},
         Comparable(doc), Acceptable(doc, run, baseline)
  PROVE  Comparable(Appended(doc, run, baseline))
<1> DEFINE new == Appended(doc, run, baseline)
           n == Len(doc) + 1
<1>1. /\ new \in Doc /\ Len(doc) \in Nat /\ Len(new) = n
      /\ \A i \in 1..Len(doc) : new[i] = doc[i]
      /\ new[n] = NewRecord(run, baseline)
  BY AppendedType DEF Doc
<1>2. DOMAIN doc = 1..Len(doc) /\ DOMAIN new = 1..n
  BY <1>1 DEF Doc
<1>3. new[n].run = run
  BY <1>1 DEF NewRecord
<1> HIDE DEF new
<1>4. \A i \in 1..Len(doc) : doc[i].run.controlled = run.controlled
  <2>1. CASE doc = <<>>
    BY <2>1
  <2>2. CASE doc # <<>>
    <3>1. PICK j \in DOMAIN doc : doc[j].run = baseline
      BY <2>2 DEF Acceptable, Persisted
    <3> QED
      BY <1>2, <2>2, <3>1 DEF Acceptable, ControlledChanges, Comparable
  <2> QED
    BY <2>1, <2>2
<1> QED
  BY <1>1, <1>2, <1>3, <1>4 DEF Comparable, new

------------------------------------------------------------------------------
(* The inductive invariant. *)

(* What a history holds: what its saved head says, or, where every process has   *)
(* heads of its own, what its document says.                                     *)
Truth(h) == IF headStore = "file" THEN HeadDoc(h) ELSE LoadedDoc(file[h])

Places == {"head", "recover", "read", "stage", "staging", "save", "saving", "publish"}

(* The locks are held by those who rely on them, and nothing is in the head file  *)
(* where heads are kept in memory.                                               *)
LocksHeld ==
    /\ \A w \in Worker :
         /\ pc[w] \in Places => owner[HistoryOf(w)] = w
         /\ pc[w] = "saving" => /\ headStore = "file" /\ headOwner = w
                                /\ local[w].copy = heads["disk"]
    /\ headStore = "memory" => heads["disk"] = NoHeads

(* What a thread knows of the history it has locked is still so. *)
Knows(w) ==
    LET h == HistoryOf(w)
        req == local[w].req
    IN  /\ pc[w] \in {"recover", "read"} /\ headStore = "file" =>
             local[w].head = heads["disk"][h]
        /\ pc[w] \in {"read", "stage"} => pending[h] = Missing
        /\ pc[w] = "staging" => pending[h] = Torn
        /\ pc[w] \in {"save", "saving", "publish"} => pending[h] = local[w].doc
        /\ pc[w] \in {"stage", "staging", "save", "saving"} =>
             /\ req.op = "append"
             /\ Acceptable(Truth(h), req.run, req.baseline)
             /\ local[w].doc = Appended(Truth(h), req.run, req.baseline)
        /\ pc[w] = "publish" =>
             /\ IsPrefix(Truth(h), local[w].doc)
             /\ headStore = "file" => heads["disk"][h] = local[w].doc

(* A saved head is of a document that can be loaded and drawn; a document that   *)
(* nobody put back is that of the head, or the slot is.  Where heads are in       *)
(* memory a whole slot adds to the document.                                     *)
OnDisk(h) ==
    LET head == heads["disk"][h]
    IN  /\ head # None => Valid(head) /\ Comparable(head)
        /\ headStore = "file" /\ ~restored[h] =>
             IF head = None THEN file[h] = Missing
             ELSE pending[h] = head \/ file[h] = head
        /\ headStore = "memory" /\ pending[h] \notin {Missing, Torn} =>
             IsPrefix(Truth(h), pending[h])

(* What callers were told of is still there. *)
Remembers ==
    /\ \A h \in History : IsPrefix(acked[h], Truth(h))
    /\ \A w \in Worker : pc[w] # "idle" => IsPrefix(local[w].since, Truth(HistoryOf(w)))
    /\ FreshAnswers

IInv ==
    /\ TypeOK
    /\ LocksHeld
    /\ \A w \in Worker : Knows(w)
    /\ \A h \in History : OnDisk(h)
    /\ Remembers
------------------------------------------------------------------------------
(* Types. *)

LEMMA TypeInit == Init => TypeOK
<1> SUFFICES ASSUME Init PROVE TypeOK
  OBVIOUS
<1>1. <<>> \in Doc
  BY DEF Doc
<1>2. NoHeads \in [History -> Doc \cup {None}]
  BY DEF NoHeads
<1>3. Idle \in Local
  BY <1>1, <1>2 DEF Idle, Local
<1> QED
  BY <1>1, <1>2, <1>3, HistoryAssumption DEF Init, TypeOK, Answer

\* The end of a request leaves the locks free and the answer given.
LEMMA TypeEnd ==
  ASSUME TypeOK, NEW w \in Worker, pc[w] # "idle", NEW a \in Answer,
         a.kind = "told" => a.doc \in Doc, End(w, a)
  PROVE  /\ owner' \in [History -> Worker \cup {None}]
         /\ headOwner' \in Worker \cup {None}
         /\ pc' = [pc EXCEPT ![w] = "idle"] /\ local' = [local EXCEPT ![w] = Idle]
         /\ local' \in [Worker -> Local]
         /\ answer' = [answer EXCEPT ![w] = a] /\ answer' \in [Worker -> Answer]
         /\ acked' \in [History -> Doc]
         /\ \A v \in Worker : pc'[v] # "idle" => local'[v].req \in Request
<1>1. <<>> \in Doc /\ NoHeads \in [History -> Doc \cup {None}]
  BY DEF Doc, NoHeads
<1>2. Idle \in Local
  BY <1>1 DEF Idle, Local
<1>3. HistoryOf(w) \in History
  BY DEF TypeOK, HistoryOf, Request
<1>4. /\ owner' \in [History -> Worker \cup {None}]
      /\ headOwner' \in Worker \cup {None}
  BY DEF TypeOK, End
<1>5. /\ local' = [local EXCEPT ![w] = Idle] /\ local' \in [Worker -> Local]
      /\ pc' = [pc EXCEPT ![w] = "idle"]
      /\ \A v \in Worker : pc'[v] # "idle" => local'[v].req \in Request
  BY <1>2 DEF TypeOK, End, Goto
<1>6. answer' = [answer EXCEPT ![w] = a] /\ answer' \in [Worker -> Answer]
  BY DEF TypeOK, End
<1>7. acked' \in [History -> Doc]
  BY <1>3 DEF TypeOK, End
<1> QED
  BY <1>4, <1>5, <1>6, <1>7

\* What a thread is told is an answer.
LEMMA ToldType ==
  ASSUME TypeOK, NEW w \in Worker, pc[w] # "idle", NEW doc \in Doc
  PROVE  /\ HistoryOf(w) \in History
         /\ Told(w, doc) \in Answer /\ Told(w, doc).kind = "told" /\ Told(w, doc).doc = doc
         /\ Told(w, doc).since = local[w].since
         /\ Refused \in Answer /\ Refused.kind # "told"
<1>1. HistoryOf(w) \in History /\ local[w].since \in Doc
  BY DEF TypeOK, HistoryOf, Request, Local
<1> QED
  BY <1>1 DEF Told, Refused, Answer, HistoryOf

LEMMA NextType ==
  ASSUME TypeOK, [Next]_vars,
         \A w \in Worker : pc[w] = "publish" => pending[HistoryOf(w)] \in Doc
  PROVE  TypeOK'
<1> USE DEF disk, locks, counters
<1>1. ASSUME NEW w \in Worker, pc[w] # "idle"
      PROVE  /\ HistoryOf(w) \in History /\ local[w] \in Local /\ local[w].req \in Request
             /\ file[HistoryOf(w)] \in Doc \cup {Missing} /\ local[w].doc \in Doc
             /\ pending[HistoryOf(w)] \in Doc \cup {Missing, Torn}
             /\ StoreOf(w) \in Store /\ LoadedDoc(file[HistoryOf(w)]) \in Doc
             /\ heads[StoreOf(w)] \in [History -> Doc \cup {None}]
  <2>1. HistoryOf(w) \in History /\ local[w] \in Local /\ local[w].req \in Request
    BY <1>1 DEF TypeOK, HistoryOf, Request
  <2>2. StoreOf(w) \in Store
    BY HistoryAssumption DEF StoreOf, Store
  <2>3. <<>> \in Doc
    BY DEF Doc
  <2> QED
    BY <2>1, <2>2, <2>3 DEF TypeOK, Local, LoadedDoc
<1>2. ASSUME NEW w \in Worker, NEW req \in Request, Start(w, req), UNCHANGED headStore
      PROVE  TypeOK'
  <2>1. acked[req.h] \in Doc
    BY DEF TypeOK, Request
  <2>2. [Idle EXCEPT !.req = req, !.since = acked[req.h]] \in Local
    <3>1. <<>> \in Doc /\ NoHeads \in [History -> Doc \cup {None}]
      BY DEF Doc, NoHeads
    <3> QED
      BY <2>1, <3>1 DEF Idle, Local
  <2>3. local' = [local EXCEPT ![w] = [Idle EXCEPT !.req = req, !.since = acked[req.h]]]
    BY <1>2 DEF Start
  <2>4. /\ local' \in [Worker -> Local]
        /\ local'[w].req = req /\ \A v \in Worker \ {w} : local'[v] = local[v]
    BY <2>2, <2>3 DEF TypeOK, Idle
  <2>5. NoAnswer \in Answer
    BY DEF Answer
  <2> QED
    BY <1>2, <2>4, <2>5, HistoryAssumption DEF TypeOK, Start, Goto
<1>3. ASSUME NEW w \in Worker, Lock(w), UNCHANGED headStore PROVE TypeOK'
  BY <1>3 DEF TypeOK, Lock, Goto
<1>4. ASSUME NEW w \in Worker, LoadHead(w), UNCHANGED headStore PROVE TypeOK'
  <2>1. pc[w] # "idle"
    BY <1>4 DEF LoadHead
  <2>2. heads[StoreOf(w)][HistoryOf(w)] \in Doc \cup {None}
    BY <1>1, <2>1
  <2> DEFINE mine == [local[w] EXCEPT !.head = heads[StoreOf(w)][HistoryOf(w)]]
  <2>3. mine \in Local /\ mine.req = local[w].req
    BY <1>1, <2>1, <2>2 DEF Local
  <2>4. local' = [local EXCEPT ![w] = mine]
    BY <1>4 DEF LoadHead
  <2> HIDE DEF mine
  <2>5. /\ local' \in [Worker -> Local] /\ \A v \in Worker : local'[v].req = local[v].req
    BY <2>3, <2>4 DEF TypeOK
  <2> QED
    BY <1>4, <2>5 DEF TypeOK, LoadHead, Goto
<1>5. ASSUME NEW w \in Worker, RecoverPending(w), UNCHANGED headStore PROVE TypeOK'
  <2>1. pc[w] # "idle"
    BY <1>5 DEF RecoverPending
  <2>2. file' \in [History -> Doc \cup {Missing}]
    BY <1>1, <1>5, <2>1 DEF TypeOK, RecoverPending
  <2>3. pending' \in [History -> Doc \cup {Missing, Torn}] /\ restored' \in [History -> BOOLEAN]
    BY <1>1, <1>5, <2>1 DEF TypeOK, RecoverPending
  <2> QED
    BY <1>5, <2>2, <2>3 DEF TypeOK, RecoverPending, Goto
<1>6. ASSUME NEW w \in Worker, pc[w] # "idle", NEW a \in Answer,
             a.kind = "told" => a.doc \in Doc, End(w, a),
             UNCHANGED <<heads, requests, headStore>>,
             file' \in [History -> Doc \cup {Missing}],
             pending' \in [History -> Doc \cup {Missing, Torn}],
             restored' \in [History -> BOOLEAN], faults' \in 0..MaxFaults
      PROVE  TypeOK'
  BY <1>6, TypeEnd DEF TypeOK
<1>7. ASSUME NEW w \in Worker, ReadRefused(w) \/ ReadLoaded(w), UNCHANGED headStore PROVE TypeOK'
  <2>1. pc[w] # "idle" /\ UNCHANGED <<disk, restored, counters>>
    BY <1>7 DEF ReadRefused, ReadLoaded
  <2>2. CASE End(w, Refused)
    BY <1>1, <1>6, <1>7, <2>1, <2>2, ToldType DEF TypeOK
  <2>3. CASE End(w, Told(w, LoadedDoc(file[HistoryOf(w)])))
    <3>1. LoadedDoc(file[HistoryOf(w)]) \in Doc
      BY <1>1, <2>1
    <3> QED
      BY <1>6, <1>7, <2>1, <2>3, <3>1, ToldType DEF TypeOK
  <2> QED
    BY <1>7, <2>2, <2>3 DEF ReadRefused, ReadLoaded
<1>8. ASSUME NEW w \in Worker, ReadForAppend(w), UNCHANGED headStore PROVE TypeOK'
  <2> DEFINE h == HistoryOf(w)  doc == LoadedDoc(file[h])  req == local[w].req
  <2>1. pc[w] # "idle" /\ req.op = "append" /\ UNCHANGED <<disk, restored, counters>>
    BY <1>8 DEF ReadForAppend
  <2>2. req.run \in Run /\ req.baseline \in Run \cup {None} /\ doc \in Doc
    BY <1>1, <2>1 DEF Request
  <2>3. CASE /\ local' = [local EXCEPT ![w].doc = Appended(doc, req.run, req.baseline)]
             /\ Goto(w, "stage") /\ UNCHANGED <<locks, answer, acked>>
    <3>1. Appended(doc, req.run, req.baseline) \in Doc
      BY <2>2, AppendedType
    <3>2. local' \in [Worker -> Local] /\ \A v \in Worker : local'[v].req = local[v].req
      BY <2>3, <3>1 DEF TypeOK, Local
    <3> QED
      BY <1>8, <2>1, <2>3, <3>2 DEF TypeOK, Goto
  <2>4. CASE End(w, Refused)
    BY <1>6, <1>8, <2>1, <2>2, <2>4, ToldType DEF TypeOK
  <2> QED
    BY <1>8, <2>3, <2>4 DEF ReadForAppend
<1>9. ASSUME NEW w \in Worker, Stage(w) \/ Staged(w), UNCHANGED headStore PROVE TypeOK'
  <2>1. pc[w] # "idle"
    BY <1>9 DEF Stage, Staged
  <2>2. pending' \in [History -> Doc \cup {Missing, Torn}]
    BY <1>1, <1>9, <2>1 DEF TypeOK, Stage, Staged
  <2> QED
    BY <1>9, <2>2 DEF TypeOK, Stage, Staged, Goto
<1>10. ASSUME NEW w \in Worker, ReadHeads(w), UNCHANGED headStore PROVE TypeOK'
  <2>1. pc[w] # "idle"
    BY <1>10 DEF ReadHeads
  <2> DEFINE mine == [local[w] EXCEPT !.copy = heads[StoreOf(w)]]
  <2>3. mine \in Local /\ mine.req = local[w].req
    BY <1>1, <2>1 DEF Local
  <2>4. local' = [local EXCEPT ![w] = mine]
    BY <1>10 DEF ReadHeads
  <2> HIDE DEF mine
  <2>2. local' \in [Worker -> Local] /\ \A v \in Worker : local'[v].req = local[v].req
    BY <2>3, <2>4 DEF TypeOK
  <2> QED
    BY <1>10, <2>2 DEF TypeOK, ReadHeads, Goto
<1>11. ASSUME NEW w \in Worker, ReplaceHeads(w), UNCHANGED headStore PROVE TypeOK'
  <2>1. pc[w] # "idle"
    BY <1>11 DEF ReplaceHeads
  <2>2. [local[w].copy EXCEPT ![HistoryOf(w)] = local[w].doc] \in [History -> Doc \cup {None}]
    BY <1>1, <2>1 DEF Local
  <2>3. heads' \in [Store -> [History -> Doc \cup {None}]]
    BY <1>11, <2>2 DEF TypeOK, ReplaceHeads
  <2> QED
    BY <1>11, <2>3 DEF TypeOK, ReplaceHeads, Goto
<1>12. ASSUME NEW w \in Worker, SaveInMemory(w), UNCHANGED headStore PROVE TypeOK'
  <2>1. pc[w] # "idle"
    BY <1>12 DEF SaveInMemory
  <2>2. heads' \in [Store -> [History -> Doc \cup {None}]]
    BY <1>1, <1>12, <2>1 DEF TypeOK, SaveInMemory
  <2> QED
    BY <1>12, <2>2 DEF TypeOK, SaveInMemory, Goto
<1>13. ASSUME NEW w \in Worker, Publish(w), UNCHANGED headStore PROVE TypeOK'
  <2>1. pc[w] # "idle" /\ UNCHANGED <<heads, counters>> /\ End(w, Told(w, local[w].doc))
    BY <1>13 DEF Publish
  <2>2. pending[HistoryOf(w)] \in Doc
    BY <1>13 DEF Publish
  <2>3. /\ file' \in [History -> Doc \cup {Missing}]
        /\ pending' \in [History -> Doc \cup {Missing, Torn}]
        /\ restored' \in [History -> BOOLEAN]
    BY <1>1, <1>13, <2>1, <2>2 DEF TypeOK, Publish
  <2>4. local[w].doc \in Doc
    BY <1>1, <2>1
  <2> QED
    BY <1>6, <1>13, <2>1, <2>3, <2>4, ToldType DEF TypeOK
<1>14. ASSUME NEW w \in Worker, FileFails(w), UNCHANGED headStore PROVE TypeOK'
  <2>1. pc[w] # "idle" /\ UNCHANGED <<disk, restored, requests>> /\ End(w, Refused)
    BY <1>14 DEF FileFails
  <2>2. faults' \in 0..MaxFaults
    BY <1>14, HistoryAssumption DEF TypeOK, FileFails, Fault
  <2> QED
    BY <1>1, <1>6, <1>14, <2>1, <2>2, ToldType DEF TypeOK
<1>15. ASSUME NEW p \in Process, Crash(p), UNCHANGED headStore PROVE TypeOK'
  <2>1. <<>> \in Doc /\ NoHeads \in [History -> Doc \cup {None}]
    BY DEF Doc, NoHeads
  <2>2. Idle \in Local /\ NoAnswer \in Answer
    BY <2>1 DEF Idle, Local, Answer
  <2>3. /\ pc' \in [Worker -> {"idle", "lock", "head", "recover", "read", "stage", "staging",
                               "save", "saving", "publish"}]
        /\ local' \in [Worker -> Local] /\ answer' \in [Worker -> Answer]
        /\ \A w \in Worker : pc'[w] # "idle" => local'[w].req \in Request
    BY <1>15, <2>2 DEF TypeOK, Crash
  <2>4. heads' \in [Store -> [History -> Doc \cup {None}]]
    BY <1>15, <2>1 DEF TypeOK, Crash
  <2>5. faults' \in 0..MaxFaults
    BY <1>15, HistoryAssumption DEF TypeOK, Crash, Fault
  <2>6. owner' \in [History -> Worker \cup {None}] /\ headOwner' \in Worker \cup {None}
    BY <1>15 DEF TypeOK, Crash
  <2> QED
    BY <1>15, <2>3, <2>4, <2>5, <2>6 DEF TypeOK, Crash
<1>16. ASSUME NEW h \in History, PutBack(h), UNCHANGED headStore PROVE TypeOK'
  <2>1. file[h] \in Doc
    BY <1>16 DEF TypeOK, PutBack
  <2>2. PICK n \in 0..(Len(file[h]) - 1) :
          file' = [file EXCEPT ![h] = IF n = 0 THEN Missing ELSE SubSeq(@, 1, n)]
    BY <1>16 DEF PutBack
  <2>3. n # 0 => SubSeq(file[h], 1, n) \in Doc
    BY <2>1, SubSeqProperties DEF Doc
  <2>4. file' \in [History -> Doc \cup {Missing}]
    BY <2>2, <2>3 DEF TypeOK
  <2>5. faults' \in 0..MaxFaults
    BY <1>16, HistoryAssumption DEF TypeOK, PutBack, Fault
  <2> QED
    BY <1>16, <2>4, <2>5 DEF TypeOK, PutBack
<1>17. CASE UNCHANGED vars
  BY <1>17 DEF TypeOK, vars
<1> QED
  BY <1>2, <1>3, <1>4, <1>5, <1>7, <1>8, <1>9, <1>10, <1>11, <1>12, <1>13, <1>14, <1>15, <1>16, <1>17
  DEF Next, Step

------------------------------------------------------------------------------
(* What a step of one thread leaves to the others. *)

\* No thread but w moves ...
OthersStay(w) == \A v \in Worker \ {w} : pc'[v] = pc[v] /\ local'[v] = local[v]

\* ... and no history changes but the one w has locked.
OthersLeft(w) ==
    \A g \in History :
        \/ pc[w] \in Places /\ g = HistoryOf(w)
        \/ /\ file'[g] = file[g] /\ pending'[g] = pending[g] /\ restored'[g] = restored[g]
           /\ heads'["disk"][g] = heads["disk"][g]

\* What a history holds is a document, in this state and the next.
LEMMA TruthType ==
  ASSUME TypeOK, NEW h \in History
  PROVE  Truth(h) \in Doc
<1>1. <<>> \in Doc /\ "disk" \in Store
  BY DEF Doc, Store
<1> QED
  BY <1>1 DEF TypeOK, Truth, HeadDoc, LoadedDoc

LEMMA HistoryOfType ==
  ASSUME TypeOK, NEW w \in Worker, pc[w] # "idle"
  PROVE  HistoryOf(w) \in History
BY DEF TypeOK, HistoryOf, Request

\* Two threads that hold a lock hold different ones.
LEMMA HistoriesDiffer ==
  ASSUME IInv, NEW v \in Worker, NEW w \in Worker, v # w, pc[v] \in Places, pc[w] \in Places
  PROVE  HistoryOf(v) # HistoryOf(w)
BY DEF IInv, LocksHeld

\* What holds of the history of w holds of all.
LEMMA Frame ==
  ASSUME IInv, NEW w \in Worker, UNCHANGED headStore, OthersStay(w), OthersLeft(w),
         Knows(w)', \A h \in History : pc[w] \in Places /\ h = HistoryOf(w) => OnDisk(h)'
  PROVE  /\ \A v \in Worker : Knows(v)'
         /\ \A h \in History : OnDisk(h)'
<1>1. ASSUME NEW g \in History, file'[g] = file[g], heads'["disk"][g] = heads["disk"][g]
      PROVE  Truth(g)' = Truth(g)
  BY <1>1 DEF Truth, HeadDoc, LoadedDoc
<1>2. ASSUME NEW v \in Worker, v # w PROVE Knows(v)'
  <2>1. pc'[v] = pc[v] /\ local'[v] = local[v] /\ HistoryOf(v)' = HistoryOf(v)
    BY <1>2 DEF OthersStay, HistoryOf
  <2>2. CASE pc[v] \notin Places
    BY <2>1, <2>2 DEF Knows, Places
  <2>3. CASE pc[v] \in Places
    <3>1. PICK g \in History : g = HistoryOf(v) /\ g = HistoryOf(v)'
      BY <2>1, <2>3, HistoryOfType DEF IInv, Places
    <3>2. ~(pc[w] \in Places /\ g = HistoryOf(w))
      BY <1>2, <2>3, <3>1, HistoriesDiffer
    <3>3. /\ pending'[g] = pending[g] /\ heads'["disk"][g] = heads["disk"][g]
          /\ Truth(g)' = Truth(g)
      BY <1>1, <3>2 DEF OthersLeft
    <3>4. Knows(v)
      BY DEF IInv
    <3>5. Truth(HistoryOf(v)) = Truth(g) /\ Truth(HistoryOf(v))' = Truth(g)'
      BY <3>1 DEF Truth, HeadDoc, LoadedDoc
    <3> QED
      BY <2>1, <3>1, <3>3, <3>4, <3>5 DEF Knows
  <2> QED
    BY <2>2, <2>3
<1>3. ASSUME NEW h \in History PROVE OnDisk(h)'
  <2>1. CASE pc[w] \in Places /\ h = HistoryOf(w)
    BY <2>1
  <2>2. CASE ~(pc[w] \in Places /\ h = HistoryOf(w))
    <3>1. /\ file'[h] = file[h] /\ pending'[h] = pending[h] /\ restored'[h] = restored[h]
          /\ heads'["disk"][h] = heads["disk"][h] /\ Truth(h)' = Truth(h)
      BY <1>1, <2>2 DEF OthersLeft
    <3>2. OnDisk(h)
      BY DEF IInv
    <3> QED
      BY <3>1, <3>2 DEF OnDisk
  <2> QED
    BY <2>1, <2>2
<1> QED
  BY <1>2, <1>3

\* What was told stays told: histories grow.
LEMMA Recall ==
  ASSUME IInv, TypeOK', NEW w \in Worker, OthersStay(w),
         \A v \in Worker \ {w} : answer'[v] = answer[v],
         \A g \in History : IsPrefix(Truth(g), Truth(g)'),
         \A g \in History : acked'[g] = acked[g] \/ IsPrefix(acked'[g], Truth(g)'),
         \/ pc'[w] = "idle"
         \/ pc[w] # "idle" /\ local'[w].since = local[w].since /\ local'[w].req = local[w].req
         \/ local'[w].since = acked[HistoryOf(w)'],
         \/ answer'[w] = answer[w] \/ answer'[w].kind # "told"
         \/ IsPrefix(answer'[w].since, answer'[w].doc)
  PROVE  Remembers'
<1>1. TypeOK /\ Remembers
  BY DEF IInv
<1>2. \A g \in History : Truth(g) \in Doc /\ Truth(g)' \in Doc /\ acked[g] \in Doc
  <2>1. \A g \in History : Truth(g) \in Doc /\ acked[g] \in Doc
    BY <1>1, TruthType DEF TypeOK
  <2>2. <<>> \in Doc /\ "disk" \in Store
    BY DEF Doc, Store
  <2>3. \A g \in History : Truth(g)' \in Doc
    BY <2>2 DEF TypeOK, Truth, HeadDoc, LoadedDoc
  <2> QED
    BY <2>1, <2>3
<1>3. \A v \in Worker : pc[v] # "idle" => HistoryOf(v) \in History /\ local[v].since \in Doc
  BY <1>1, HistoryOfType DEF TypeOK, Local
<1>4. \A g \in History : IsPrefix(acked[g], Truth(g)')
  BY <1>1, <1>2, PrefixTransitive DEF Remembers, Doc
<1>5. ASSUME NEW v \in Worker, pc'[v] # "idle" PROVE IsPrefix(local'[v].since, Truth(HistoryOf(v))')
  <2>1. PICK g \in History : g = HistoryOf(v)'
    BY <1>5 DEF TypeOK, HistoryOf, Request
  <2>2. Truth(HistoryOf(v))' = Truth(g)'
    BY <2>1 DEF Truth, HeadDoc, LoadedDoc
  <2>3. CASE pc[v] # "idle" /\ local'[v].since = local[v].since /\ local'[v].req = local[v].req
    <3>1. HistoryOf(v) = g
      BY <2>1, <2>3 DEF HistoryOf
    <3>2. IsPrefix(local[v].since, Truth(g))
      BY <1>1, <2>3, <3>1 DEF Remembers
    <3>3. IsPrefix(local[v].since, Truth(g)')
      BY <1>2, <1>3, <2>3, <3>2, PrefixTransitive DEF Doc
    <3> QED
      BY <2>2, <2>3, <3>3
  <2>4. CASE v = w /\ local'[w].since = acked[g]
    BY <1>4, <2>1, <2>2, <2>4
  <2>5. CASE v # w
    BY <1>5, <2>3, <2>5 DEF OthersStay
  <2>6. CASE v = w
    BY <1>5, <2>1, <2>3, <2>4, <2>6
  <2> QED
    BY <2>5, <2>6
<1>6. FreshAnswers'
  <2> SUFFICES ASSUME NEW v \in Worker, answer'[v].kind = "told"
               PROVE  IsPrefix(answer'[v].since, answer'[v].doc)
    BY DEF FreshAnswers
  <2> QED
    BY <1>1 DEF Remembers, FreshAnswers
<1> QED
  BY <1>4, <1>5, <1>6 DEF Remembers

\* A thread goes on with what it has locked.
LEMMA MoveSafe ==
  ASSUME IInv, TypeOK', NEW w \in Worker, pc[w] \in Places, pc'[w] \in Places,
         UNCHANGED <<headStore, owner, acked, answer>>,
         local'[w].req = local[w].req, local'[w].since = local[w].since,
         OthersStay(w), OthersLeft(w), NEW h \in History, h = HistoryOf(w),
         IsPrefix(Truth(h), Truth(h)'), Knows(w)', OnDisk(h)',
         headStore = "memory" => heads'["disk"] = heads["disk"],
         \A v \in Worker : pc'[v] = "saving" => /\ headStore = "file" /\ headOwner' = v
                                                /\ local'[v].copy = heads'["disk"]
  PROVE  IInv'
<1>1. TypeOK /\ LocksHeld
  BY DEF IInv
<1>2. LocksHeld'
  <2>1. \A v \in Worker : local'[v].req = local[v].req /\ (pc'[v] \in Places => pc[v] \in Places)
    BY DEF OthersStay
  <2>2. \A v \in Worker : pc'[v] \in Places => owner'[local'[v].req.h] = v
    BY <1>1, <2>1 DEF LocksHeld, HistoryOf
  <2> QED
    BY <1>1, <2>2 DEF LocksHeld, HistoryOf
<1>3. (\A v \in Worker : Knows(v)') /\ \A g \in History : OnDisk(g)'
  BY Frame
<1>4. \A g \in History : IsPrefix(Truth(g), Truth(g)')
  <2> SUFFICES ASSUME NEW g \in History, g # h PROVE IsPrefix(Truth(g), Truth(g)')
    OBVIOUS
  <2>1. Truth(g)' = Truth(g)
    BY DEF OthersLeft, Truth, HeadDoc, LoadedDoc
  <2> QED
    BY <1>1, <2>1, TruthType, PrefixReflexive DEF Doc
<1>5. Remembers'
  <2>1. pc[w] # "idle"
    BY DEF Places
  <2> QED
    BY <1>4, <2>1, Recall
<1> QED
  BY <1>2, <1>3, <1>5 DEF IInv

\* A request ends, with what the history holds or a refusal.
LEMMA EndSafe ==
  ASSUME IInv, TypeOK', NEW w \in Worker, pc[w] \in Places, NEW a \in Answer, End(w, a),
         UNCHANGED <<headStore, heads>>,
         OthersLeft(w), NEW h \in History, h = HistoryOf(w),
         IsPrefix(Truth(h), Truth(h)'), OnDisk(h)',
         a.kind = "told" => /\ a.doc \in Doc /\ a.since = local[w].since
                            /\ IsPrefix(a.since, a.doc) /\ IsPrefix(a.doc, Truth(h)')
  PROVE  IInv'
<1>1. TypeOK /\ LocksHeld /\ pc[w] # "idle"
  BY DEF IInv, Places
<1>2. /\ pc' = [pc EXCEPT ![w] = "idle"] /\ local' = [local EXCEPT ![w] = Idle]
      /\ answer' = [answer EXCEPT ![w] = a]
      /\ owner' = [owner EXCEPT ![h] = None]
      /\ headOwner' = IF headOwner = w THEN None ELSE headOwner
  BY DEF End, Goto
<1>3. /\ OthersStay(w) /\ pc'[w] = "idle" /\ answer'[w] = a
      /\ \A v \in Worker \ {w} : answer'[v] = answer[v]
  BY <1>1, <1>2 DEF TypeOK, OthersStay
<1>4. LocksHeld'
  <2>1. ASSUME NEW v \in Worker, pc'[v] \in Places
        PROVE  v # w /\ pc[v] \in Places /\ local'[v] = local[v] /\ owner'[local[v].req.h] = v
    <3>1. v # w /\ pc'[v] = pc[v] /\ local'[v] = local[v]
      BY <1>3, <2>1 DEF OthersStay, Places
    <3>2. HistoryOf(v) # h /\ HistoryOf(v) \in History /\ owner[HistoryOf(v)] = v
      BY <1>1, <2>1, <3>1, HistoriesDiffer, HistoryOfType DEF Places, LocksHeld
    <3> QED
      BY <1>1, <1>2, <2>1, <3>1, <3>2 DEF TypeOK, HistoryOf
  <2>2. ASSUME NEW v \in Worker, pc'[v] = "saving"
        PROVE  headStore = "file" /\ headOwner' = v /\ local'[v].copy = heads["disk"]
    <3>1. v # w /\ pc[v] = "saving" /\ local'[v] = local[v]
      BY <1>3, <2>2 DEF OthersStay
    <3> QED
      BY <1>1, <1>2, <3>1 DEF LocksHeld
  <2> QED
    BY <1>1, <2>1, <2>2 DEF LocksHeld, HistoryOf
<1>5. Knows(w)'
  BY <1>3 DEF Knows
<1>6. (\A v \in Worker : Knows(v)') /\ \A g \in History : OnDisk(g)'
  BY <1>3, <1>5, Frame
<1>7. \A g \in History : IsPrefix(Truth(g), Truth(g)')
  <2> SUFFICES ASSUME NEW g \in History, g # h PROVE IsPrefix(Truth(g), Truth(g)')
    OBVIOUS
  <2>1. Truth(g)' = Truth(g)
    BY DEF OthersLeft, Truth, HeadDoc, LoadedDoc
  <2> QED
    BY <1>1, <2>1, TruthType, PrefixReflexive DEF Doc
<1>8. \A g \in History : acked'[g] = acked[g] \/ IsPrefix(acked'[g], Truth(g)')
  <2>1. \A g \in History : acked'[g] = acked[g] \/ (a.kind = "told" /\ g = h /\ acked'[g] = a.doc)
    BY <1>1 DEF End, TypeOK
  <2> QED
    BY <2>1
<1>9. Remembers'
  BY <1>3, <1>7, <1>8, Recall
<1> QED
  BY <1>4, <1>6, <1>9 DEF IInv

------------------------------------------------------------------------------
(* The steps of a thread that holds the lock of its history. *)

\* What the invariant says of such a thread.
LEMMA Mine ==
  ASSUME IInv, NEW w \in Worker, pc[w] \in Places
  PROVE  /\ TypeOK /\ LocksHeld /\ Knows(w) /\ pc[w] # "idle"
         /\ HistoryOf(w) \in History /\ HistoryOf(w) = local[w].req.h
         /\ local[w] \in Local /\ local[w].req \in Request /\ local[w].doc \in Doc
         /\ file[HistoryOf(w)] \in Doc \cup {Missing}
         /\ pending[HistoryOf(w)] \in Doc \cup {Missing, Torn}
         /\ OnDisk(HistoryOf(w))
         /\ Truth(HistoryOf(w)) \in Doc /\ IsPrefix(Truth(HistoryOf(w)), Truth(HistoryOf(w)))
         /\ IsPrefix(local[w].since, Truth(HistoryOf(w)))
         /\ "disk" \in Store
<1>1. TypeOK /\ pc[w] # "idle" /\ HistoryOf(w) \in History
  BY HistoryOfType DEF IInv, Places
<1>2. local[w] \in Local /\ local[w].req \in Request /\ local[w].doc \in Doc
  BY <1>1 DEF TypeOK, Local
<1>3. Truth(HistoryOf(w)) \in Doc
  BY <1>1, TruthType
<1> QED
  BY <1>1, <1>2, <1>3, PrefixReflexive DEF IInv, TypeOK, Remembers, HistoryOf, Store, Doc

LEMMA LoadHeadSafe ==
  ASSUME IInv, TypeOK', NEW w \in Worker, LoadHead(w), UNCHANGED headStore
  PROVE  IInv'
<1>1. pc[w] \in Places
  BY DEF LoadHead, Places
<1>2. PICK h \in History : h = HistoryOf(w)
  BY <1>1, Mine
<1>3. TypeOK /\ LocksHeld /\ local[w] \in Local
  BY <1>1, Mine
<1> DEFINE mine == [local[w] EXCEPT !.head = heads[StoreOf(w)][HistoryOf(w)]]
<1>4. /\ mine.req = local[w].req /\ mine.since = local[w].since /\ mine.copy = local[w].copy
      /\ mine.head = heads[StoreOf(w)][h]
  BY <1>2, <1>3 DEF Local
<1>5. local' = [local EXCEPT ![w] = mine] /\ pc' = [pc EXCEPT ![w] = "recover"]
  BY DEF LoadHead, Goto
<1> HIDE DEF mine
<1>6. /\ pc'[w] = "recover" /\ local'[w] = mine /\ OthersStay(w)
      /\ UNCHANGED <<file, pending, heads, owner, headOwner, answer, acked, restored>>
  BY <1>3, <1>5 DEF LoadHead, disk, locks, OthersStay, TypeOK
<1>7. Truth(h)' = Truth(h) /\ OthersLeft(w)
  BY <1>6 DEF Truth, HeadDoc, LoadedDoc, OthersLeft
<1>8. Knows(w)'
  <2>1. HistoryOf(w)' = h
    BY <1>2, <1>4, <1>6 DEF HistoryOf
  <2>2. headStore = "file" => mine.head = heads["disk"][h]
    BY <1>4 DEF StoreOf
  <2> QED
    BY <1>6, <2>1, <2>2 DEF Knows
<1>9. OnDisk(h)'
  <2>1. OnDisk(h)
    BY DEF IInv
  <2> QED
    BY <1>6, <1>7, <2>1 DEF OnDisk
<1>10. \A v \in Worker : pc'[v] = "saving" => /\ headStore = "file" /\ headOwner' = v
                                              /\ local'[v].copy = heads'["disk"]
  BY <1>3, <1>6 DEF LocksHeld, OthersStay
<1>11. IsPrefix(Truth(h), Truth(h)')
  BY <1>1, <1>2, <1>7, Mine
<1> QED
  BY <1>1, <1>2, <1>4, <1>6, <1>7, <1>8, <1>9, <1>10, <1>11, MoveSafe DEF Places

\* A recovery publishes what the head says, or leaves the document (history.py:574-593).
LEMMA RecoverSafe ==
  ASSUME IInv, TypeOK', NEW w \in Worker, RecoverPending(w), UNCHANGED headStore
  PROVE  IInv'
<1>1. pc[w] \in Places
  BY DEF RecoverPending, Places
<1>2. PICK h \in History : h = HistoryOf(w)
  BY <1>1, Mine
<1>3. TypeOK /\ LocksHeld /\ OnDisk(h) /\ Knows(w) /\ Truth(h) \in Doc /\ IsPrefix(Truth(h), Truth(h))
  BY <1>1, <1>2, Mine
<1>4. /\ pc' = [pc EXCEPT ![w] = "read"] /\ pending' = [pending EXCEPT ![h] = Missing]
      /\ UNCHANGED <<heads, owner, headOwner, local, answer, acked>>
  BY <1>2 DEF RecoverPending, Goto, locks
<1>5. /\ pc'[w] = "read" /\ OthersStay(w) /\ pending'[h] = Missing
      /\ \A g \in History \ {h} : pending'[g] = pending[g]
  BY <1>3, <1>4 DEF OthersStay, TypeOK
<1>6. headStore = "file" => local[w].head = heads["disk"][h]
  BY <1>2, <1>3 DEF Knows, RecoverPending
<1>7. \/ /\ pending[h] \notin {Missing, Torn} /\ pending[h] = local[w].head
         /\ file'[h] = pending[h] /\ restored'[h] = FALSE
         /\ \A g \in History \ {h} : file'[g] = file[g] /\ restored'[g] = restored[g]
      \/ /\ pending[h] \in {Missing, Torn} \/ pending[h] # local[w].head
         /\ UNCHANGED <<file, restored>>
  BY <1>2, <1>3 DEF RecoverPending, TypeOK
<1>8. OthersLeft(w)
  BY <1>1, <1>2, <1>4, <1>5, <1>7 DEF OthersLeft
<1>9. IsPrefix(Truth(h), Truth(h)')
  <2>1. CASE headStore = "file"
    <3>1. Truth(h)' = Truth(h)
      BY <1>4, <2>1 DEF Truth, HeadDoc
    <3> QED
      BY <1>3, <3>1
  <2>2. CASE headStore = "memory"
    <3>1. CASE UNCHANGED <<file, restored>>
      <4>1. Truth(h)' = Truth(h)
        BY <1>4, <3>1 DEF Truth, HeadDoc, LoadedDoc
      <4> QED
        BY <1>3, <4>1
    <3>2. CASE pending[h] \notin {Missing, Torn} /\ file'[h] = pending[h]
      <4>1. Truth(h)' = pending[h]
        BY <2>2, <3>2 DEF Truth, LoadedDoc
      <4> QED
        BY <1>3, <2>2, <3>2, <4>1 DEF OnDisk
    <3> QED
      BY <1>7, <3>1, <3>2
  <2> QED
    BY <1>3, <2>1, <2>2 DEF TypeOK
<1>10. OnDisk(h)'
  <2>1. Missing # Torn /\ None # Missing
    BY HistoryAssumption
  <2> DEFINE head == heads["disk"][h]
  <2>2. head # None => Valid(head) /\ Comparable(head)
    BY <1>3 DEF OnDisk
  <2>3. headStore = "file" /\ ~restored'[h] =>
           IF head = None THEN file'[h] = Missing ELSE pending'[h] = head \/ file'[h] = head
    <3>1. ASSUME headStore = "file", ~restored'[h], UNCHANGED <<file, restored>>,
                 pending[h] \in {Missing, Torn} \/ pending[h] # head
          PROVE  IF head = None THEN file'[h] = Missing ELSE file'[h] = head
      <4>1. head \in Doc \cup {None}
        BY <1>3 DEF TypeOK, Store
      <4>2. Missing \notin Doc /\ Torn \notin Doc
        BY HistoryAssumption
      <4> QED
        BY <1>3, <3>1, <4>1, <4>2 DEF OnDisk
    <3>2. ASSUME headStore = "file", pending[h] \notin {Missing, Torn}, pending[h] = head,
                 file'[h] = pending[h]
          PROVE  head # None /\ file'[h] = head
      <4>1. pending[h] \in Doc /\ None \notin Doc
        BY <1>3, <3>2, HistoryAssumption DEF TypeOK
      <4> QED
        BY <3>2, <4>1
    <3> QED
      BY <1>6, <1>7, <3>1, <3>2
  <2> QED
    BY <1>4, <1>5, <2>2, <2>3 DEF OnDisk
<1>11. Knows(w)'
  <2>1. HistoryOf(w)' = h
    BY <1>2, <1>4 DEF HistoryOf
  <2> QED
    BY <1>4, <1>5, <1>6, <2>1 DEF Knows
<1>12. \A v \in Worker : pc'[v] = "saving" => /\ headStore = "file" /\ headOwner' = v
                                              /\ local'[v].copy = heads'["disk"]
  BY <1>3, <1>4, <1>5 DEF LocksHeld, OthersStay
<1> QED
  BY <1>1, <1>2, <1>4, <1>5, <1>8, <1>9, <1>10, <1>11, <1>12, MoveSafe DEF Places

\* What is loaded is what the history holds (history.py:553-572).
LEMMA LoadedTruth ==
  ASSUME IInv, NEW w \in Worker, pc[w] = "read", NEW h \in History, h = HistoryOf(w),
         Loads(file[h], local[w].head)
  PROVE  LoadedDoc(file[h]) = Truth(h)
<1>1. Knows(w) /\ TypeOK
  BY DEF IInv
<1>2. CASE headStore = "file"
  <2>1. local[w].head = heads["disk"][h]
    BY <1>1, <1>2 DEF Knows
  <2>2. CASE file[h] = Missing
    BY <1>2, <2>1, <2>2 DEF Loads, LoadedDoc, Truth, HeadDoc
  <2>3. CASE file[h] # Missing
    BY <1>2, <2>1, <2>3 DEF Loads, LoadedDoc, Truth, HeadDoc
  <2> QED
    BY <2>2, <2>3
<1>3. CASE headStore = "memory"
  BY <1>3 DEF Truth
<1> QED
  BY <1>1, <1>2, <1>3 DEF TypeOK

LEMMA EndUndisturbed ==
  ASSUME IInv, TypeOK', NEW w \in Worker, pc[w] \in Places, NEW a \in Answer, End(w, a),
         UNCHANGED <<headStore, file, pending, heads, restored>>,
         a.kind = "told" => /\ a.doc = Truth(HistoryOf(w)) /\ a.since = local[w].since
  PROVE  IInv'
<1>1. PICK h \in History : h = HistoryOf(w)
  BY Mine
<1>2. OnDisk(h) /\ Truth(h) \in Doc /\ IsPrefix(Truth(h), Truth(h)) /\ IsPrefix(local[w].since, Truth(h))
  BY <1>1, Mine
<1>3. Truth(h)' = Truth(h) /\ OthersLeft(w)
  BY DEF Truth, HeadDoc, LoadedDoc, OthersLeft
<1>4. OnDisk(h)'
  BY <1>2, <1>3 DEF OnDisk
<1>5. a.kind = "told" => a.doc = Truth(h)
  BY <1>1
<1> QED
  BY <1>1, <1>2, <1>3, <1>4, <1>5, EndSafe

LEMMA ReadEndsSafe ==
  ASSUME IInv, TypeOK', NEW w \in Worker, UNCHANGED headStore,
         ReadRefused(w) \/ ReadLoaded(w) \/ FileFails(w)
  PROVE  IInv'
<1>1. pc[w] \in Places /\ UNCHANGED <<file, pending, heads, restored>>
  BY DEF ReadRefused, ReadLoaded, FileFails, Places, disk
<1>2. PICK h \in History : h = HistoryOf(w)
  BY <1>1, Mine
<1>3. TypeOK /\ pc[w] # "idle" /\ Truth(h) \in Doc
  BY <1>1, <1>2, Mine
<1>4. CASE End(w, Refused)
  BY <1>1, <1>3, <1>4, ToldType, EndUndisturbed
<1>5. CASE ReadLoaded(w)
  <2>1. LoadedDoc(file[h]) = Truth(h) /\ End(w, Told(w, LoadedDoc(file[h])))
    BY <1>2, <1>5, LoadedTruth DEF ReadLoaded
  <2>2. End(w, Told(w, Truth(h)))
    BY <2>1
  <2>3. Told(w, Truth(h)) \in Answer /\ Told(w, Truth(h)).doc = Truth(h)
        /\ Told(w, Truth(h)).since = local[w].since
    BY <1>3, ToldType
  <2> QED
    BY <1>1, <1>2, <2>2, <2>3, EndUndisturbed
<1> QED
  BY <1>4, <1>5 DEF ReadRefused, FileFails

LEMMA ReadForAppendSafe ==
  ASSUME IInv, TypeOK', NEW w \in Worker, ReadForAppend(w), UNCHANGED headStore
  PROVE  IInv'
<1>1. pc[w] \in Places /\ pc[w] = "read" /\ UNCHANGED <<file, pending, heads, restored>>
  BY DEF ReadForAppend, Places, disk
<1>2. PICK h \in History : h = HistoryOf(w)
  BY <1>1, Mine
<1>3. /\ TypeOK /\ LocksHeld /\ OnDisk(h) /\ Knows(w) /\ pc[w] # "idle" /\ local[w] \in Local
      /\ Truth(h) \in Doc /\ IsPrefix(Truth(h), Truth(h))
  BY <1>1, <1>2, Mine
<1> DEFINE req == local[w].req  doc == Appended(Truth(h), req.run, req.baseline)
<1>4. CASE End(w, Refused)
  BY <1>1, <1>3, <1>4, ToldType, EndUndisturbed
<1>5. CASE /\ Acceptable(Truth(h), req.run, req.baseline)
           /\ local' = [local EXCEPT ![w].doc = doc]
           /\ Goto(w, "stage") /\ UNCHANGED <<locks, answer, acked>>
  <2> DEFINE mine == [local[w] EXCEPT !.doc = doc]
  <2>1. mine.req = req /\ mine.since = local[w].since /\ mine.copy = local[w].copy /\ mine.doc = doc
    BY <1>3 DEF Local
  <2>2. local' = [local EXCEPT ![w] = mine] /\ pc' = [pc EXCEPT ![w] = "stage"]
    BY <1>5 DEF Goto
  <2> HIDE DEF mine
  <2>3. /\ pc'[w] = "stage" /\ local'[w] = mine /\ OthersStay(w)
        /\ UNCHANGED <<owner, headOwner, answer, acked>>
    BY <1>3, <1>5, <2>2 DEF locks, OthersStay, TypeOK
  <2>4. Truth(h)' = Truth(h) /\ OthersLeft(w)
    BY <1>1 DEF Truth, HeadDoc, LoadedDoc, OthersLeft
  <2>5. HistoryOf(w)' = h
    BY <1>2, <2>1, <2>3 DEF HistoryOf
  <2>6. Knows(w)'
    <3>1. pending[h] = Missing /\ req.op = "append"
      BY <1>1, <1>2, <1>3 DEF Knows, ReadForAppend
    <3>2. Truth(HistoryOf(w))' = Truth(h)
      BY <2>4, <2>5 DEF Truth, HeadDoc, LoadedDoc
    <3> QED
      BY <1>1, <1>5, <2>1, <2>3, <2>5, <3>1, <3>2 DEF Knows
  <2>7. OnDisk(h)'
    BY <1>1, <1>3, <2>4 DEF OnDisk
  <2>8. \A v \in Worker : pc'[v] = "saving" => /\ headStore = "file" /\ headOwner' = v
                                               /\ local'[v].copy = heads'["disk"]
    BY <1>1, <1>3, <2>3 DEF LocksHeld, OthersStay
  <2> QED
    BY <1>1, <1>2, <1>3, <2>1, <2>3, <2>4, <2>6, <2>7, <2>8, MoveSafe DEF Places
<1>6. LoadedDoc(file[h]) = Truth(h)
  BY <1>1, <1>2, LoadedTruth DEF ReadForAppend
<1> QED
  BY <1>2, <1>4, <1>5, <1>6 DEF ReadForAppend

\* The slot is emptied, then filled (history.py:701-709).
LEMMA StageSafe ==
  ASSUME IInv, TypeOK', NEW w \in Worker, Stage(w) \/ Staged(w), UNCHANGED headStore
  PROVE  IInv'
<1>1. pc[w] \in Places /\ UNCHANGED <<file, heads, restored, owner, headOwner, local, answer, acked>>
  BY DEF Stage, Staged, Places, locks
<1>2. PICK h \in History : h = HistoryOf(w)
  BY <1>1, Mine
<1>3. /\ TypeOK /\ LocksHeld /\ OnDisk(h) /\ Knows(w) /\ local[w].req \in Request /\ local[w].doc \in Doc
      /\ Truth(h) \in Doc /\ IsPrefix(Truth(h), Truth(h))
  BY <1>1, <1>2, Mine
<1>4. Truth(h)' = Truth(h) /\ HistoryOf(w)' = h
  BY <1>1, <1>2 DEF Truth, HeadDoc, LoadedDoc, HistoryOf
<1>5. pc'[w] \in Places /\ pc'[w] # "saving" /\ OthersStay(w)
      /\ \A g \in History \ {h} : pending'[g] = pending[g]
  BY <1>1, <1>2, <1>3 DEF Stage, Staged, Goto, OthersStay, Places, TypeOK
<1>6. OthersLeft(w)
  BY <1>1, <1>2, <1>5 DEF OthersLeft
<1>7. /\ Acceptable(Truth(h), local[w].req.run, local[w].req.baseline)
      /\ local[w].doc = Appended(Truth(h), local[w].req.run, local[w].req.baseline)
      /\ local[w].req.op = "append"
      /\ pending[h] \in {Missing, Torn}
  BY <1>2, <1>3 DEF Knows, Stage, Staged
<1>8. IsPrefix(Truth(h), local[w].doc)
  <2>1. local[w].req.run \in Run /\ local[w].req.baseline \in Run \cup {None}
    BY <1>3, <1>7 DEF Request
  <2> QED
    BY <1>3, <1>7, <2>1, AppendedType
<1>9. \/ pc'[w] = "staging" /\ pending'[h] = Torn
      \/ pc'[w] = "save" /\ pending'[h] = local[w].doc
  BY <1>2, <1>3 DEF Stage, Staged, Goto, TypeOK
<1>10. Knows(w)'
  <2>1. Truth(HistoryOf(w))' = Truth(h)
    BY <1>4 DEF Truth, HeadDoc, LoadedDoc
  <2> QED
    BY <1>1, <1>4, <1>7, <1>9, <2>1 DEF Knows
<1>11. OnDisk(h)'
  <2>1. heads["disk"][h] = None \/ heads["disk"][h] \in Doc
    BY <1>3 DEF TypeOK, Store
  <2>2. Missing \notin Doc /\ Torn \notin Doc
    BY HistoryAssumption
  <2>3. headStore = "file" /\ ~restored[h] =>
           IF heads["disk"][h] = None THEN file[h] = Missing ELSE file[h] = heads["disk"][h]
    BY <1>3, <1>7, <2>1, <2>2 DEF OnDisk
  <2> QED
    BY <1>1, <1>3, <1>4, <1>8, <1>9, <2>3 DEF OnDisk
<1>12. \A v \in Worker : pc'[v] = "saving" => /\ headStore = "file" /\ headOwner' = v
                                              /\ local'[v].copy = heads'["disk"]
  BY <1>1, <1>3, <1>5 DEF LocksHeld, OthersStay
<1> QED
  BY <1>1, <1>2, <1>3, <1>4, <1>5, <1>6, <1>10, <1>11, <1>12, MoveSafe

\* The head file is read under its lock (history.py:117-138).
LEMMA ReadHeadsSafe ==
  ASSUME IInv, TypeOK', NEW w \in Worker, ReadHeads(w), UNCHANGED headStore
  PROVE  IInv'
<1>1. pc[w] \in Places /\ UNCHANGED <<file, pending, heads, restored, owner, answer, acked>>
  BY DEF ReadHeads, Places, disk
<1>2. PICK h \in History : h = HistoryOf(w)
  BY <1>1, Mine
<1>3. /\ TypeOK /\ LocksHeld /\ OnDisk(h) /\ Knows(w) /\ local[w] \in Local
      /\ Truth(h) \in Doc /\ IsPrefix(Truth(h), Truth(h))
  BY <1>1, <1>2, Mine
<1> DEFINE mine == [local[w] EXCEPT !.copy = heads[StoreOf(w)]]
<1>4. /\ mine.req = local[w].req /\ mine.since = local[w].since /\ mine.doc = local[w].doc
      /\ mine.copy = heads["disk"]
  BY <1>3 DEF Local, ReadHeads, StoreOf
<1>5. local' = [local EXCEPT ![w] = mine] /\ pc' = [pc EXCEPT ![w] = "saving"] /\ headOwner' = w
  BY DEF ReadHeads, Goto
<1> HIDE DEF mine
<1>6. pc'[w] = "saving" /\ local'[w] = mine /\ OthersStay(w)
  BY <1>3, <1>5 DEF OthersStay, TypeOK
<1>7. Truth(h)' = Truth(h) /\ OthersLeft(w) /\ HistoryOf(w)' = h
  BY <1>1, <1>2, <1>4, <1>6 DEF Truth, HeadDoc, LoadedDoc, OthersLeft, HistoryOf
<1>8. Knows(w)'
  <2>1. Truth(HistoryOf(w))' = Truth(h)
    BY <1>7 DEF Truth, HeadDoc, LoadedDoc
  <2>2. /\ local[w].req.op = "append" /\ pending[h] = local[w].doc
        /\ Acceptable(Truth(h), local[w].req.run, local[w].req.baseline)
        /\ local[w].doc = Appended(Truth(h), local[w].req.run, local[w].req.baseline)
    BY <1>2, <1>3 DEF Knows, ReadHeads
  <2> QED
    BY <1>1, <1>4, <1>6, <1>7, <2>1, <2>2 DEF Knows
<1>9. OnDisk(h)'
  BY <1>1, <1>3, <1>7 DEF OnDisk
<1>10. \A v \in Worker : pc'[v] = "saving" => /\ headStore = "file" /\ headOwner' = v
                                              /\ local'[v].copy = heads'["disk"]
  <2>1. headStore = "file" /\ headOwner = None /\ None \notin Worker
    BY HistoryAssumption DEF ReadHeads
  <2>2. \A v \in Worker : pc[v] # "saving"
    BY <1>3, <2>1 DEF LocksHeld
  <2> QED
    BY <1>1, <1>4, <1>5, <1>6, <2>1, <2>2 DEF OthersStay
<1> QED
  BY <1>1, <1>2, <1>3, <1>4, <1>6, <1>7, <1>8, <1>9, <1>10, MoveSafe DEF Places

\* What a thread is about to save is the history with one acceptable record more, and
\* the head that is saved is of a document that can be loaded.
LEMMA SavedDoc ==
  ASSUME IInv, NEW w \in Worker, pc[w] \in {"save", "saving"}, NEW h \in History, h = HistoryOf(w)
  PROVE  /\ local[w].req.run \in Run /\ local[w].req.baseline \in Run \cup {None}
         /\ Acceptable(Truth(h), local[w].req.run, local[w].req.baseline)
         /\ local[w].doc = Appended(Truth(h), local[w].req.run, local[w].req.baseline)
         /\ local[w].doc \in Doc /\ IsPrefix(Truth(h), local[w].doc)
         /\ pending[h] = local[w].doc
         /\ headStore = "file" => Valid(local[w].doc) /\ Comparable(local[w].doc)
<1>1. pc[w] \in Places
  BY DEF Places
<1>2. /\ TypeOK /\ Knows(w) /\ OnDisk(h) /\ local[w].req \in Request /\ Truth(h) \in Doc
  BY <1>1, Mine
<1> DEFINE run == local[w].req.run  baseline == local[w].req.baseline
<1>3. /\ local[w].req.op = "append" /\ Acceptable(Truth(h), run, baseline)
      /\ local[w].doc = Appended(Truth(h), run, baseline) /\ pending[h] = local[w].doc
  BY <1>2 DEF Knows
<1>4. run \in Run /\ baseline \in Run \cup {None}
  BY <1>2, <1>3 DEF Request
<1>5. local[w].doc \in Doc /\ IsPrefix(Truth(h), local[w].doc)
  BY <1>2, <1>3, <1>4, AppendedType
<1>6. ASSUME headStore = "file" PROVE Valid(local[w].doc) /\ Comparable(local[w].doc)
  <2>1. Valid(Truth(h)) /\ Comparable(Truth(h))
    <3>1. Valid(<<>>) /\ Comparable(<<>>)
      BY DEF Valid, Comparable
    <3> QED
      BY <1>2, <1>6, <3>1 DEF OnDisk, Truth, HeadDoc
  <2> QED
    BY <1>2, <1>3, <1>4, <2>1, AppendedValid, AppendedComparable
<1> QED
  BY <1>3, <1>4, <1>5, <1>6

\* ... and replaced with one entry changed (history.py:140-154).
LEMMA ReplaceHeadsSaves ==
  ASSUME IInv, NEW w \in Worker, ReplaceHeads(w), UNCHANGED headStore, NEW h \in History,
         h = HistoryOf(w)
  PROVE  /\ headStore = "file" /\ heads'["disk"][h] = local[w].doc
         /\ \A g \in History \ {h} : heads'["disk"][g] = heads["disk"][g]
         /\ Truth(h)' = local[w].doc
<1>1. TypeOK /\ LocksHeld /\ pc[w] = "saving" /\ local[w].doc \in Doc
  BY Mine DEF IInv, ReplaceHeads, Places
<1>2. headStore = "file" /\ headOwner = w /\ local[w].copy = heads["disk"]
  BY <1>1 DEF LocksHeld
<1>3. heads["disk"] \in [History -> Doc \cup {None}] /\ "disk" \in Store
  BY <1>1 DEF TypeOK, Store
<1>4. heads' = [heads EXCEPT !["disk"] = [heads["disk"] EXCEPT ![h] = local[w].doc]]
  BY <1>2 DEF ReplaceHeads, StoreOf
<1>5. heads'["disk"] = [heads["disk"] EXCEPT ![h] = local[w].doc]
  BY <1>1, <1>3, <1>4 DEF TypeOK
<1>6. /\ heads'["disk"][h] = local[w].doc
      /\ \A g \in History \ {h} : heads'["disk"][g] = heads["disk"][g]
  BY <1>3, <1>5
<1>7. None \notin Doc
  BY HistoryAssumption
<1> QED
  BY <1>1, <1>2, <1>6, <1>7 DEF Truth, HeadDoc

LEMMA ReplaceHeadsSafe ==
  ASSUME IInv, TypeOK', NEW w \in Worker, ReplaceHeads(w), UNCHANGED headStore
  PROVE  IInv'
<1>1. /\ pc[w] \in Places /\ pc[w] = "saving"
      /\ UNCHANGED <<file, pending, restored, owner, local, answer, acked>>
  BY DEF ReplaceHeads, Places
<1>2. PICK h \in History : h = HistoryOf(w)
  BY <1>1, Mine
<1>3. TypeOK /\ LocksHeld /\ OnDisk(h)
  BY <1>1, <1>2, Mine
<1>4. /\ headStore = "file" /\ heads'["disk"][h] = local[w].doc
      /\ \A g \in History \ {h} : heads'["disk"][g] = heads["disk"][g]
      /\ Truth(h)' = local[w].doc
  BY <1>2, ReplaceHeadsSaves
<1>5. /\ local[w].doc \in Doc /\ IsPrefix(Truth(h), local[w].doc) /\ pending[h] = local[w].doc
      /\ Valid(local[w].doc) /\ Comparable(local[w].doc)
  BY <1>1, <1>2, <1>4, SavedDoc
<1>6. pc'[w] = "publish" /\ OthersStay(w) /\ HistoryOf(w)' = h
  BY <1>1, <1>2, <1>3 DEF ReplaceHeads, Goto, OthersStay, HistoryOf, TypeOK
<1>7. OthersLeft(w)
  BY <1>1, <1>2, <1>4 DEF OthersLeft
<1>8. Knows(w)'
  <2>1. Truth(HistoryOf(w))' = local[w].doc
    BY <1>4, <1>6 DEF Truth, HeadDoc, LoadedDoc
  <2>2. IsPrefix(local[w].doc, local[w].doc)
    BY <1>5, PrefixReflexive DEF Doc
  <2> QED
    BY <1>1, <1>4, <1>5, <1>6, <2>1, <2>2 DEF Knows
<1>9. OnDisk(h)'
  <2>1. None \notin Doc
    BY HistoryAssumption
  <2> QED
    BY <1>1, <1>4, <1>5, <2>1 DEF OnDisk
<1>10. \A v \in Worker : pc'[v] # "saving"
  BY <1>1, <1>3, <1>6 DEF LocksHeld, OthersStay
<1> QED
  BY <1>1, <1>2, <1>4, <1>5, <1>6, <1>7, <1>8, <1>9, <1>10, MoveSafe DEF Places

\* A head in memory is of no other process (history.py:46-64).
LEMMA SaveInMemorySafe ==
  ASSUME IInv, TypeOK', NEW w \in Worker, SaveInMemory(w), UNCHANGED headStore
  PROVE  IInv'
<1>1. /\ pc[w] \in Places /\ pc[w] = "save" /\ headStore = "memory"
      /\ UNCHANGED <<file, pending, restored, owner, headOwner, local, answer, acked>>
  BY DEF SaveInMemory, Places, locks
<1>2. PICK h \in History : h = HistoryOf(w)
  BY <1>1, Mine
<1>3. TypeOK /\ LocksHeld /\ OnDisk(h) /\ Truth(h) \in Doc /\ IsPrefix(Truth(h), Truth(h))
  BY <1>1, <1>2, Mine
<1>4. heads'["disk"] = heads["disk"]
  <2>1. StoreOf(w) # "disk"
    BY <1>1, HistoryAssumption DEF StoreOf
  <2> QED
    BY <1>3, <2>1 DEF SaveInMemory, TypeOK
<1>5. IsPrefix(Truth(h), local[w].doc) /\ pending[h] = local[w].doc
  BY <1>1, <1>2, SavedDoc
<1>6. pc'[w] = "publish" /\ OthersStay(w) /\ HistoryOf(w)' = h
  BY <1>1, <1>2, <1>3 DEF SaveInMemory, Goto, OthersStay, HistoryOf, TypeOK
<1>7. Truth(h)' = Truth(h) /\ OthersLeft(w)
  BY <1>1, <1>4 DEF Truth, HeadDoc, LoadedDoc, OthersLeft
<1>8. Knows(w)'
  <2>1. Truth(HistoryOf(w))' = Truth(h)
    BY <1>6, <1>7 DEF Truth, HeadDoc, LoadedDoc
  <2> QED
    BY <1>1, <1>5, <1>6, <2>1 DEF Knows
<1>9. OnDisk(h)'
  BY <1>1, <1>3, <1>4, <1>7 DEF OnDisk
<1>10. \A v \in Worker : pc'[v] = "saving" => /\ headStore = "file" /\ headOwner' = v
                                              /\ local'[v].copy = heads'["disk"]
  BY <1>1, <1>3, <1>4, <1>6 DEF LocksHeld, OthersStay
<1> QED
  BY <1>1, <1>2, <1>3, <1>4, <1>6, <1>7, <1>8, <1>9, <1>10, MoveSafe DEF Places

\* The slot is moved over the document (history.py:711-718).
LEMMA PublishSafe ==
  ASSUME IInv, TypeOK', NEW w \in Worker, Publish(w), UNCHANGED headStore
  PROVE  IInv'
<1>1. pc[w] \in Places /\ pc[w] = "publish" /\ UNCHANGED heads
  BY DEF Publish, Places
<1>2. PICK h \in History : h = HistoryOf(w)
  BY <1>1, Mine
<1>3. /\ TypeOK /\ OnDisk(h) /\ Knows(w) /\ local[w].doc \in Doc /\ pc[w] # "idle"
      /\ Truth(h) \in Doc /\ local[w] \in Local /\ IsPrefix(local[w].since, Truth(h))
  BY <1>1, <1>2, Mine
<1> DEFINE doc == local[w].doc
<1>4. /\ pending[h] = doc /\ IsPrefix(Truth(h), doc)
      /\ headStore = "file" => heads["disk"][h] = doc
  BY <1>1, <1>2, <1>3 DEF Knows
<1>5. /\ file'[h] = doc /\ pending'[h] = Missing /\ restored'[h] = FALSE
      /\ \A g \in History \ {h} : /\ file'[g] = file[g] /\ pending'[g] = pending[g]
                                  /\ restored'[g] = restored[g]
  BY <1>2, <1>3, <1>4 DEF Publish, TypeOK
<1>6. OthersLeft(w)
  BY <1>1, <1>2, <1>5 DEF OthersLeft
<1>7. Missing \notin Doc /\ None \notin Doc
  BY HistoryAssumption
<1>8. Truth(h)' = doc
  <2>1. CASE headStore = "file"
    BY <1>1, <1>3, <1>4, <1>7, <2>1 DEF Truth, HeadDoc
  <2>2. CASE headStore = "memory"
    BY <1>3, <1>5, <1>7, <2>2 DEF Truth, LoadedDoc
  <2> QED
    BY <1>3, <2>1, <2>2 DEF TypeOK
<1>9. OnDisk(h)'
  BY <1>1, <1>3, <1>4, <1>5, <1>7 DEF OnDisk
<1>10. End(w, Told(w, doc))
  BY DEF Publish
<1>11. Told(w, doc) \in Answer /\ Told(w, doc).doc = doc /\ Told(w, doc).since = local[w].since
  BY <1>3, ToldType
<1>12. IsPrefix(doc, doc) /\ IsPrefix(local[w].since, doc)
  <2>1. local[w].since \in Doc
    BY <1>3 DEF Local
  <2> QED
    BY <1>3, <1>4, <2>1, PrefixReflexive, PrefixTransitive DEF Doc
<1> HIDE DEF doc
<1> QED
  BY <1>1, <1>2, <1>3, <1>4, <1>6, <1>8, <1>9, <1>10, <1>11, <1>12, EndSafe DEF doc

------------------------------------------------------------------------------
(* The other steps. *)

LEMMA StartSafe ==
  ASSUME IInv, TypeOK', NEW w \in Worker, NEW req \in Request, Start(w, req), UNCHANGED headStore
  PROVE  IInv'
<1> DEFINE mine == [Idle EXCEPT !.req = req, !.since = acked[req.h]]
<1>1. /\ TypeOK /\ LocksHeld /\ pc[w] = "idle"
      /\ UNCHANGED <<file, pending, heads, owner, headOwner, acked, restored>>
  BY DEF IInv, Start, disk, locks
<1>2. mine.req = req /\ mine.since = acked[req.h]
  BY DEF Idle
<1>3. local' = [local EXCEPT ![w] = mine] /\ pc' = [pc EXCEPT ![w] = "lock"]
  BY DEF Start, Goto
<1> HIDE DEF mine
<1>4. /\ pc'[w] = "lock" /\ local'[w] = mine /\ OthersStay(w)
      /\ answer' = [answer EXCEPT ![w] = NoAnswer]
  BY <1>1, <1>3 DEF OthersStay, TypeOK, Start
<1>5. OthersLeft(w) /\ \A g \in History : Truth(g)' = Truth(g)
  BY <1>1 DEF OthersLeft, Truth, HeadDoc, LoadedDoc
<1>6. LocksHeld'
  BY <1>1, <1>4 DEF LocksHeld, OthersStay, HistoryOf, Places
<1>7. Knows(w)'
  BY <1>4 DEF Knows
<1>8. (\A v \in Worker : Knows(v)') /\ \A g \in History : OnDisk(g)'
  BY <1>1, <1>4, <1>5, <1>7, Frame DEF Places
<1>9. Remembers'
  <2>1. \A g \in History : IsPrefix(Truth(g), Truth(g)')
    BY <1>1, <1>5, TruthType, PrefixReflexive DEF Doc
  <2>2. answer'[w].kind # "told" /\ \A v \in Worker \ {w} : answer'[v] = answer[v]
    BY <1>1, <1>4 DEF TypeOK, NoAnswer
  <2>3. local'[w].since = acked[HistoryOf(w)']
    BY <1>2, <1>4 DEF HistoryOf
  <2> QED
    BY <1>1, <1>4, <2>1, <2>2, <2>3, Recall
<1> QED
  BY <1>6, <1>8, <1>9 DEF IInv

LEMMA LockSafe ==
  ASSUME IInv, TypeOK', NEW w \in Worker, Lock(w), UNCHANGED headStore
  PROVE  IInv'
<1>1. /\ TypeOK /\ LocksHeld /\ pc[w] = "lock" /\ owner[HistoryOf(w)] = None
      /\ UNCHANGED <<file, pending, heads, headOwner, local, answer, acked, restored>>
  BY DEF IInv, Lock, disk
<1>2. PICK h \in History : h = HistoryOf(w)
  BY <1>1, HistoryOfType
<1>3. /\ pc'[w] = "head" /\ OthersStay(w) /\ owner'[h] = w
      /\ \A g \in History \ {h} : owner'[g] = owner[g]
  BY <1>1, <1>2 DEF OthersStay, TypeOK, Lock, Goto
<1>4. OthersLeft(w) /\ \A g \in History : Truth(g)' = Truth(g)
  BY <1>1 DEF OthersLeft, Truth, HeadDoc, LoadedDoc
<1>5. LocksHeld'
  <2>1. ASSUME NEW v \in Worker, v # w, pc'[v] \in Places PROVE owner'[HistoryOf(v)] = v
    <3>1. pc[v] \in Places /\ owner[HistoryOf(v)] = v
      BY <1>1, <1>3, <2>1 DEF OthersStay, LocksHeld
    <3>2. HistoryOf(v) \in History /\ HistoryOf(v) # h
      BY <1>1, <1>2, <3>1, HistoryOfType, HistoryAssumption DEF Places
    <3> QED
      BY <1>3, <3>1, <3>2
  <2>2. \A v \in Worker : HistoryOf(v)' = HistoryOf(v)
    BY <1>1 DEF HistoryOf
  <2>3. \A v \in Worker : pc'[v] = "saving" => pc[v] = "saving"
    BY <1>3 DEF OthersStay
  <2>4. \A v \in Worker : pc'[v] \in Places => owner'[HistoryOf(v)'] = v
    BY <1>2, <1>3, <2>1, <2>2
  <2> QED
    BY <1>1, <2>3, <2>4 DEF LocksHeld
<1>6. Knows(w)'
  BY <1>3 DEF Knows
<1>7. (\A v \in Worker : Knows(v)') /\ \A g \in History : OnDisk(g)'
  BY <1>1, <1>3, <1>4, <1>6, Frame DEF Places
<1>8. Remembers'
  <2>1. \A g \in History : IsPrefix(Truth(g), Truth(g)')
    BY <1>1, <1>4, TruthType, PrefixReflexive DEF Doc
  <2> QED
    BY <1>1, <1>3, <2>1, Recall
<1> QED
  BY <1>5, <1>7, <1>8 DEF IInv

\* A process dies: its locks are free, the files stay as they are.
LEMMA CrashSafe ==
  ASSUME IInv, TypeOK', NEW p \in Process, Crash(p), UNCHANGED headStore
  PROVE  IInv'
<1> DEFINE dead == {w \in Worker : Home[w] = p}
<1>1. TypeOK /\ LocksHeld /\ UNCHANGED <<file, pending, acked, restored>>
  BY DEF IInv, Crash
<1>2. heads'["disk"] = heads["disk"]
  BY <1>1, HistoryAssumption DEF Crash, TypeOK
<1>3. \A g \in History : Truth(g)' = Truth(g)
  BY <1>1, <1>2 DEF Truth, HeadDoc, LoadedDoc
<1>4. /\ \A w \in dead : pc'[w] = "idle" /\ answer'[w] = NoAnswer
      /\ \A w \in Worker \ dead : pc'[w] = pc[w] /\ local'[w] = local[w] /\ answer'[w] = answer[w]
      /\ \A g \in History : owner'[g] = IF owner[g] \in dead THEN None ELSE owner[g]
      /\ headOwner' = IF headOwner \in dead THEN None ELSE headOwner
  BY DEF Crash
<1>5. \A w \in Worker : pc'[w] # "idle" => /\ w \notin dead /\ pc'[w] = pc[w] /\ local'[w] = local[w]
                                           /\ HistoryOf(w)' = HistoryOf(w)
                                           /\ HistoryOf(w) \in History
  BY <1>1, <1>4, HistoryOfType DEF HistoryOf
<1> HIDE DEF dead
<1>6. LocksHeld'
  BY <1>1, <1>2, <1>4, <1>5 DEF LocksHeld, Places
<1>7. ASSUME NEW w \in Worker PROVE Knows(w)'
  <2>1. CASE pc'[w] = "idle"
    BY <2>1 DEF Knows
  <2>2. CASE pc'[w] # "idle"
    <3>1. PICK h \in History : h = HistoryOf(w) /\ h = HistoryOf(w)'
      BY <1>5, <2>2
    <3>2. Truth(HistoryOf(w)) = Truth(h) /\ Truth(HistoryOf(w))' = Truth(h)'
      BY <3>1 DEF Truth, HeadDoc, LoadedDoc
    <3>3. Knows(w)
      BY DEF IInv
    <3> QED
      BY <1>1, <1>2, <1>3, <1>5, <2>2, <3>1, <3>2, <3>3 DEF Knows
  <2> QED
    BY <2>1, <2>2
<1>8. \A g \in History : OnDisk(g)'
  BY <1>1, <1>2, <1>3 DEF IInv, OnDisk
<1>9. Remembers'
  <2>1. Remembers
    BY DEF IInv
  <2>2. FreshAnswers'
    BY <1>4, <2>1 DEF Remembers, FreshAnswers, NoAnswer
  <2>3. ASSUME NEW w \in Worker, pc'[w] # "idle"
        PROVE  IsPrefix(local'[w].since, Truth(HistoryOf(w))')
    <3>1. PICK h \in History : h = HistoryOf(w) /\ h = HistoryOf(w)'
      BY <1>5, <2>3
    <3>2. Truth(HistoryOf(w)) = Truth(h) /\ Truth(HistoryOf(w))' = Truth(h)'
      BY <3>1 DEF Truth, HeadDoc, LoadedDoc
    <3> QED
      BY <1>3, <1>5, <2>1, <2>3, <3>1, <3>2 DEF Remembers
  <2> QED
    BY <1>1, <1>3, <2>1, <2>2, <2>3 DEF Remembers
<1> QED
  BY <1>6, <1>7, <1>8, <1>9 DEF IInv

\* A document that was put back is not the truth: its head is (history.py:568-571).
LEMMA PutBackSafe ==
  ASSUME IInv, TypeOK', NEW h \in History, PutBack(h), UNCHANGED headStore
  PROVE  IInv'
<1>1. /\ TypeOK /\ LocksHeld /\ headStore = "file" /\ restored' = [restored EXCEPT ![h] = TRUE]
      /\ \A g \in History \ {h} : file'[g] = file[g]
      /\ UNCHANGED <<pending, heads, owner, headOwner, pc, local, answer, acked>>
  BY DEF IInv, PutBack, locks, TypeOK
<1>2. \A g \in History : Truth(g)' = Truth(g)
  BY <1>1 DEF Truth, HeadDoc
<1>3. \A w \in Worker : Truth(HistoryOf(w))' = Truth(HistoryOf(w)) /\ HistoryOf(w)' = HistoryOf(w)
  BY <1>1 DEF Truth, HeadDoc, HistoryOf
<1>4. LocksHeld'
  BY <1>1, <1>3 DEF LocksHeld
<1>5. \A w \in Worker : Knows(w)'
  BY <1>1, <1>3 DEF IInv, Knows
<1>6. \A g \in History : OnDisk(g)'
  BY <1>1, <1>2 DEF IInv, OnDisk, TypeOK
<1>7. Remembers'
  BY <1>1, <1>2, <1>3 DEF IInv, Remembers, FreshAnswers
<1> QED
  BY <1>4, <1>5, <1>6, <1>7 DEF IInv

------------------------------------------------------------------------------
(* The invariant, and what follows. *)

LEMMA InitSafe == Init => IInv
<1> SUFFICES ASSUME Init PROVE IInv
  OBVIOUS
<1>1. TypeOK
  BY TypeInit
<1>2. LocksHeld
  BY DEF Init, LocksHeld, Places, Store
<1>3. \A w \in Worker : Knows(w)
  BY DEF Init, Knows
<1>4. \A h \in History : OnDisk(h)
  BY DEF Init, OnDisk, Store, NoHeads
<1>5. Remembers
  <2>1. \A h \in History : acked[h] = <<>> /\ Truth(h) \in Doc
    BY <1>1, TruthType DEF Init
  <2>2. \A h \in History : IsPrefix(acked[h], Truth(h))
    BY <2>1, PrefixReflexive DEF Doc
  <2> QED
    BY <2>2 DEF Init, Remembers, FreshAnswers, NoAnswer
<1> QED
  BY <1>1, <1>2, <1>3, <1>4, <1>5 DEF IInv

LEMMA SlotIsWhole ==
  ASSUME IInv
  PROVE  \A w \in Worker : pc[w] = "publish" => pending[HistoryOf(w)] \in Doc
BY Mine DEF IInv, Knows, Places

LEMMA StepSafe ==
  ASSUME IInv, [Next]_vars
  PROVE  TypeOK' /\ IInv'
<1>1. TypeOK'
  BY SlotIsWhole, NextType DEF IInv
<1>2. CASE UNCHANGED vars
  <2>1. UNCHANGED <<file, pending, heads, owner, headOwner, pc, local, answer, acked, restored, headStore>>
    BY <1>2 DEF vars, disk, locks
  <2>2. LocksHeld' /\ (\A w \in Worker : Knows(w)') /\ Remembers' /\ \A h \in History : OnDisk(h)'
    BY <2>1 DEF IInv, LocksHeld, Knows, OnDisk, Remembers, FreshAnswers, HistoryOf, Truth, HeadDoc,
                LoadedDoc
  <2> QED
    BY <1>1, <2>2 DEF IInv
<1>3. CASE Next
  <2>1. ASSUME NEW w \in Worker, Step(w), UNCHANGED headStore PROVE IInv'
    BY <1>1, <2>1, LockSafe, LoadHeadSafe, RecoverSafe, ReadEndsSafe, ReadForAppendSafe, StageSafe,
       ReadHeadsSafe, ReplaceHeadsSafe, SaveInMemorySafe, PublishSafe DEF Step
  <2> QED
    BY <1>1, <1>3, <2>1, StartSafe, ReadEndsSafe, CrashSafe, PutBackSafe DEF Next
<1> QED
  BY <1>1, <1>2, <1>3

LEMMA Invariance == Spec => []IInv
<1>1. Init => IInv
  BY InitSafe
<1>2. IInv /\ [Next]_vars => IInv'
  BY StepSafe
<1> QED
  BY <1>1, <1>2, PTL DEF Spec

\* The variables keep their types (history.py:506-537).
THEOREM TypeCorrect == Spec => []TypeOK
BY Invariance, PTL DEF IInv

\* Wherever a process dies or a file operation fails, the next load finds the
\* document whose head was saved last, and its records make one trend
\* (history.py:553-593, 679-699, 701-718).
THEOREM HistoryReadable == Spec => []AlwaysReadable
<1>1. ASSUME IInv PROVE AlwaysReadable
  <2> SUFFICES ASSUME headStore = "file", NEW h \in History, ~restored[h]
               PROVE  LET head == heads["disk"][h]
                          f    == IF pending[h] = head THEN pending[h] ELSE file[h]
                      IN  /\ Loads(f, head) /\ LoadedDoc(f) = HeadDoc(h)
                          /\ Comparable(HeadDoc(h))
    BY DEF AlwaysReadable
  <2> DEFINE head == heads["disk"][h]
             f == IF pending[h] = head THEN pending[h] ELSE file[h]
  <2>1. /\ OnDisk(h) /\ head \in Doc \cup {None} /\ pending[h] \in Doc \cup {Missing, Torn}
        /\ None \notin Doc /\ Missing \notin Doc /\ None # Missing /\ None # Torn
    BY <1>1, HistoryAssumption DEF IInv, TypeOK, Store
  <2>2. CASE head = None
    <3>1. f = Missing /\ HeadDoc(h) = <<>>
      BY <2>1, <2>2 DEF OnDisk, HeadDoc
    <3>2. Comparable(<<>>)
      BY DEF Comparable
    <3> QED
      BY <2>2, <3>1, <3>2 DEF Loads, LoadedDoc
  <2>3. CASE head # None
    <3>1. f = head /\ HeadDoc(h) = head /\ f # Missing /\ Valid(head) /\ Comparable(head)
      BY <2>1, <2>3 DEF OnDisk, HeadDoc
    <3> QED
      BY <2>3, <3>1 DEF Loads, LoadedDoc
  <2> QED
    BY <2>2, <2>3
<1> QED
  BY <1>1, Invariance, PTL

\* No caller is told of less than was known when it asked (history.py:549-572, 595-607).
THEOREM AnswersAreFresh == Spec => []FreshAnswers
BY Invariance, PTL DEF IInv, Remembers

\* Seen from its saved heads a history is an append-only log: only the save of a head
\* is a step of it, and appends one acceptable record (history.py:595-718).
THEOREM HistoryImplementsLog == Spec => ImplementsAppendLog
<1>1. Init => Log!Init
  BY DEF Init, Log!Init, HeadDoc, NoHeads, Store
<1>2. ASSUME IInv, [Next]_vars
      PROVE  [Log!Next]_([h \in History |-> HeadDoc(h)])
  <2> DEFINE log == [h \in History |-> HeadDoc(h)]
  <2>1. ASSUME heads'["disk"] = heads["disk"] PROVE log' = log
    BY <2>1 DEF HeadDoc
  <2>2. CASE \E w \in Worker : ReplaceHeads(w) /\ UNCHANGED headStore
    <3>1. PICK w \in Worker : ReplaceHeads(w) /\ UNCHANGED headStore
      BY <2>2
    <3>2. pc[w] \in Places /\ pc[w] \in {"save", "saving"}
      BY <3>1 DEF ReplaceHeads, Places
    <3>3. PICK h \in History : h = HistoryOf(w)
      BY <1>2, <3>2, Mine
    <3> DEFINE run == local[w].req.run  baseline == local[w].req.baseline
    <3>4. /\ headStore = "file" /\ Truth(h)' = local[w].doc /\ headStore' = "file"
          /\ \A g \in History \ {h} : heads'["disk"][g] = heads["disk"][g]
      BY <1>2, <3>1, <3>3, ReplaceHeadsSaves
    <3>5. /\ run \in Run /\ baseline \in Run \cup {None}
          /\ Acceptable(HeadDoc(h), run, baseline)
          /\ local[w].doc = Appended(HeadDoc(h), run, baseline)
      BY <1>2, <3>2, <3>3, <3>4, SavedDoc DEF Truth
    <3>6. HeadDoc(h)' = local[w].doc /\ \A g \in History \ {h} : HeadDoc(g)' = HeadDoc(g)
      BY <3>4 DEF Truth, HeadDoc
    <3>7. log' = [log EXCEPT ![h] = Appended(log[h], run, baseline)]
      BY <3>5, <3>6
    <3>8. Log!Acceptable(log[h], run, baseline)
      BY <3>5 DEF Acceptable, Log!Acceptable, Ids, Log!Ids, Persisted, Log!Persisted,
                  ControlledChanges, Log!ControlledChanges
    <3>9. Log!Appended(log[h], run, baseline) = Appended(log[h], run, baseline)
      BY DEF Appended, Log!Appended, NewRecord, Log!NewRecord, NoVerdict, Log!NoVerdict,
             SummaryGate, Log!SummaryGate, Regressed, Log!Regressed
    <3> HIDE DEF log
    <3>10. Log!AppendRecord(h)
      BY <3>5, <3>7, <3>8, <3>9 DEF Log!AppendRecord, log
    <3> QED
      BY <3>10 DEF Log!Next
  <2>3. CASE ~\E w \in Worker : ReplaceHeads(w) /\ UNCHANGED headStore
    <3>1. TypeOK
      BY <1>2 DEF IInv
    <3>2. ASSUME NEW w \in Worker, SaveInMemory(w) PROVE heads'["disk"] = heads["disk"]
      BY <3>1, <3>2, HistoryAssumption DEF TypeOK, SaveInMemory, StoreOf
    <3>3. ASSUME NEW p \in Process, Crash(p) PROVE heads'["disk"] = heads["disk"]
      BY <3>1, <3>3, HistoryAssumption DEF TypeOK, Crash
    <3>4. heads'["disk"] = heads["disk"]
      BY <1>2, <2>3, <3>2, <3>3 DEF Next, Step, Start, Lock, LoadHead, RecoverPending, ReadRefused,
         ReadLoaded, ReadForAppend, Stage, Staged, ReadHeads, Publish, FileFails, PutBack, vars, disk
    <3> QED
      BY <2>1, <3>4
  <2> QED
    BY <2>2, <2>3
<1>3. Spec => Log!Spec
  BY <1>1, <1>2, Invariance, PTL DEF Spec, Log!Spec
<1> QED
  BY <1>3 DEF ImplementsAppendLog

==============================================================================
