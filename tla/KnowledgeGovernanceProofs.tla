----------------------- MODULE KnowledgeGovernanceProofs -----------------------
(* Proofs about KnowledgeGovernance, for any diagnoses, seeds, candidates and    *)
(* persons, any number of requests at a time, and any number of operations,       *)
(* restores, crashes and containers.                                             *)
EXTENDS KnowledgeGovernance, FiniteSetTheorems, SequenceTheorems, WellFoundedInduction,
        TLAPS

------------------------------------------------------------------------------
(* What the operators on candidates and journals return.                         *)

(* A new candidate is one (knowledge_candidates.py, knowledge_seeds.py).          *)
LEMMA NewCandidateType ==
  ASSUME NEW source \in Diagnosis \cup Seed, NEW conclusion \in Nat,
         NEW importer \in Actor \cup {None}
  PROVE  LET k == NewCandidate(source, conclusion, importer) IN
         /\ k \in Candidate /\ k.source = source /\ k.conclusion = conclusion
         /\ k.importer = importer /\ k.version = 0 /\ k.reviews = <<>> /\ k.status = "candidate"
BY DEF NewCandidate, Candidate

(* A new candidate has no course of decisions yet.                               *)
LEMMA NewCandidateFits ==
  ASSUME NEW k \in Candidate, k.reviews = <<>>, k.status = "candidate"
  PROVE  HistoryFits(k)
<1>1. DOMAIN k.reviews = {}
  OBVIOUS
<1>2. [i \in DOMAIN k.reviews |-> k.reviews[i].action] = <<>>
  BY <1>1
<1> QED
  BY <1>2 DEF HistoryFits

(* A review that may be made continues the course of decisions and keeps the rest  *)
(* of the candidate (knowledge.py, apply_review).                                *)
LEMMA ReviewedType ==
  ASSUME NEW k \in Candidate, NEW action \in ReviewActions, NEW reviewer \in Actor
  PROVE  LET r == Reviewed(k, action, reviewer) IN
         /\ r \in Candidate /\ r.source = k.source /\ r.conclusion = k.conclusion
         /\ r.importer = k.importer /\ r.version = k.version
         /\ r.reviews = Append(k.reviews, [action |-> action, reviewer |-> reviewer])
         /\ r.status = ReviewTarget(action)
<1> DEFINE e == [action |-> action, reviewer |-> reviewer]
<1>1. e \in [action : ReviewActions, reviewer : Actor]
  OBVIOUS
<1>2. Append(k.reviews, e) \in Seq([action : ReviewActions, reviewer : Actor])
  BY <1>1 DEF Candidate
<1>3. ReviewTarget(action) \in {"confirmed", "rejected", "retired"}
  BY DEF ReviewTarget, ReviewActions
<1> HIDE DEF e
<1>4. Reviewed(k, action, reviewer) = [k EXCEPT !.reviews = Append(k.reviews, e), !.status = ReviewTarget(action)]
  BY DEF Reviewed, e
<1>5. LET r == Reviewed(k, action, reviewer) IN
      /\ r \in Candidate /\ r.source = k.source /\ r.conclusion = k.conclusion
      /\ r.importer = k.importer /\ r.version = k.version
      /\ r.reviews = Append(k.reviews, e) /\ r.status = ReviewTarget(action)
  BY <1>2, <1>3, <1>4 DEF Candidate
<1> QED
  BY <1>5 DEF e

LEMMA ReviewedFits ==
  ASSUME NEW k \in Candidate, NEW action \in ReviewActions, NEW reviewer \in Actor,
         MayReview(k, action, reviewer)
  PROVE  /\ HistoryFits(Reviewed(k, action, reviewer))
         /\ Len(Reviewed(k, action, reviewer).reviews) = Len(k.reviews) + 1
         /\ \A i \in DOMAIN Reviewed(k, action, reviewer).reviews :
              \/ i \in DOMAIN k.reviews /\ Reviewed(k, action, reviewer).reviews[i] = k.reviews[i]
              \/ Reviewed(k, action, reviewer).reviews[i].reviewer = reviewer
<1> DEFINE r == Reviewed(k, action, reviewer)
           e == [action |-> action, reviewer |-> reviewer]
           n == Len(k.reviews)
<1>1. /\ r \in Candidate /\ r.reviews = Append(k.reviews, e) /\ r.status = ReviewTarget(action)
  BY ReviewedType
<1>2. /\ k.reviews \in Seq([action : ReviewActions, reviewer : Actor]) /\ e \in [action : ReviewActions, reviewer : Actor]
      /\ n \in Nat /\ DOMAIN k.reviews = 1..n
  BY LenProperties DEF Candidate
<1>3. /\ Len(r.reviews) = n + 1 /\ DOMAIN r.reviews = 1..(n + 1)
      /\ \A i \in 1..n : r.reviews[i] = k.reviews[i]
      /\ r.reviews[n + 1] = e
  BY <1>1, <1>2, AppendProperties, LenProperties DEF Candidate
<1>4. HistoryFits(k) /\ k.status = IF action = "retire" THEN "confirmed" ELSE "candidate"
  BY DEF MayReview
<1>5. CASE action = "retire"
  <2>1. [i \in DOMAIN k.reviews |-> k.reviews[i].action] = <<"confirm">>
    BY <1>4, <1>5 DEF HistoryFits
  <2>2. DOMAIN k.reviews = 1..1 /\ k.reviews[1].action = "confirm"
    BY <2>1
  <2>3. n = 1
    <3> HIDE DEF n
    <3>1. n \in Nat /\ 1..n = 1..1
      BY <1>2, <2>2
    <3>2. 1 \in 1..n
      BY <3>1
    <3>3. n \in 1..1
      BY <3>1, <3>2
    <3> QED
      BY <3>3
  <2>4. /\ DOMAIN r.reviews = 1..2 /\ r.reviews[1].action = "confirm" /\ r.reviews[2].action = "retire"
    BY <1>3, <1>5, <2>2, <2>3
  <2>5. [i \in DOMAIN r.reviews |-> r.reviews[i].action] = <<"confirm", "retire">>
    BY <2>4
  <2>6. r.status = "retired"
    BY <1>1, <1>5 DEF ReviewTarget
  <2> HIDE DEF r
  <2>7. HistoryFits(r)
    BY <2>5, <2>6 DEF HistoryFits
  <2> QED
    BY <1>2, <1>3, <2>7 DEF r
<1>6. CASE action # "retire"
  <2>1. [i \in DOMAIN k.reviews |-> k.reviews[i].action] = <<>>
    BY <1>4, <1>6 DEF HistoryFits
  <2>2. DOMAIN k.reviews = {}
    BY <2>1
  <2>3. n = 0
    BY <1>2, <2>2
  <2>4. DOMAIN r.reviews = 1..1 /\ r.reviews[1].action = action
    BY <1>3, <2>3
  <2>5. [i \in DOMAIN r.reviews |-> r.reviews[i].action] = <<action>>
    BY <2>4
  <2>6. \/ action = "confirm" /\ r.status = "confirmed"
        \/ action = "reject" /\ r.status = "rejected"
    BY <1>1, <1>6 DEF ReviewTarget, ReviewActions
  <2> HIDE DEF r
  <2>7. HistoryFits(r)
    BY <2>5, <2>6 DEF HistoryFits
  <2> QED
    BY <1>2, <1>3, <2>7 DEF r
<1> QED
  BY <1>5, <1>6

(* The conclusion of a confirmed diagnosis is the one the run just before the      *)
(* confirmation offered (knowledge_candidates.py, _validate_source).               *)
LEMMA ConclusionConfirmed ==
  ASSUME NEW entries \in Seq(Entry), ConfirmedAsOffered(entries),
         entries # <<>>, Last(entries).left = "confirmed"
  PROVE  /\ ConclusionOf(entries) = Len(entries) - 1
         /\ Len(entries) > 1 /\ entries[Len(entries)].operation = "confirm"
<1> DEFINE n == Len(entries)
<1>1. /\ n \in Nat /\ DOMAIN entries = 1..n /\ n > 1 /\ Last(entries) = entries[n]
      /\ entries[n].left = "confirmed" /\ entries[n].operation = "confirm"
      /\ entries[n - 1].left = "waiting_for_confirmation"
  BY LenProperties DEF ConfirmedAsOffered, Last
<1>2. /\ n - 1 \in Offers(entries) /\ Offers(entries) \subseteq 1..n
      /\ n \notin Offers(entries)
  BY <1>1 DEF Offers
<1>3. \A i \in Offers(entries) : n - 1 >= i
  BY <1>1, <1>2
<1>4. Max(Offers(entries)) = n - 1
  <2> DEFINE S == Offers(entries)
  <2>1. n - 1 \in S /\ \A i \in S : n - 1 >= i /\ i \in Nat
    BY <1>1, <1>2, <1>3
  <2> HIDE DEF S
  <2>2. \E x \in S : \A y \in S : x >= y
    BY <2>1
  <2>3. Max(S) \in S /\ \A y \in S : Max(S) >= y
    BY <2>2 DEF Max
  <2>4. n - 1 \in Nat
    BY <1>1
  <2>5. Max(S) = n - 1
    BY <2>1, <2>3, <2>4
  <2> QED
    BY <2>5 DEF S
<1> QED
  BY <1>1, <1>2, <1>4 DEF ConclusionOf

------------------------------------------------------------------------------
(* The inductive invariant.                                                      *)

Entity == Diagnosis \cup Knowledge
EventsFor(tr, e) == {x \in tr : x.entity = e}
Versions(events) == {x.version : x \in events}

(* The trail of a database has one event for each version of each entity.        *)
OneEventPerVersion(j, kn, tr) ==
    /\ \A e \in Entity : Versions(EventsFor(tr, e)) = 1..VersionOf(j, kn, e)
    /\ \A x, y \in tr : x.entity = y.entity /\ x.version = y.version => x = y

(* The status of a diagnosis is what its journal left, and a confirmed one was    *)
(* offered just before.                                                          *)
Lasting(j, s) ==
    \A d \in Diagnosis :
        /\ s[d] = IF j[d] = <<>> THEN "absent" ELSE Last(j[d]).left
        /\ ConfirmedAsOffered(j[d])

(* What holds of a candidate, whatever its version is: its reviews are one legal  *)
(* course of decisions, none by who imported it, and its source is confirmed.     *)
Rightful(j, s, k) ==
    /\ HistoryFits(k)
    /\ k.source \in Seed => \A i \in DOMAIN k.reviews : k.reviews[i].reviewer # k.importer
    /\ k.source \in Diagnosis =>
         s[k.source] = "confirmed" /\ k.conclusion = Len(j[k.source]) - 1

Governed(j, s, kn) ==
    \A id \in Knowledge : kn[id] # None =>
        kn[id].version = Len(kn[id].reviews) + 1 /\ Rightful(j, s, kn[id])

Sound(j, s, kn, tr) ==
    Lasting(j, s) /\ OneEventPerVersion(j, kn, tr) /\ Governed(j, s, kn)

(* The database, and the backup it may be replaced by, are sound; what a request  *)
(* made of the database that is still under the path is rightful in it.          *)
StoreSound ==
    /\ Sound(journal, status, knowledge, trail)
    /\ backup # None => Sound(backup.journal, backup.status, backup.knowledge, backup.trail)

Prepared ==
    \A w \in Worker : pc[w] # "idle" /\ local[w].read = file =>
        /\ local[w].candidate.version = Len(local[w].candidate.reviews)
        /\ Rightful(journal, status, local[w].candidate)

(* Requests name their event; a file number is never used again.                 *)
Named ==
    \A w \in Worker : pc[w] # "idle" =>
        /\ local[w].event.entity = local[w].id
        /\ local[w].event.version = local[w].candidate.version + 1
        /\ local[w].read <= local[w].file /\ local[w].file <= file

(* Whoever holds the write lock of the file under the path holds it alone, and    *)
(* still finds the row as it was when the lock was taken.                        *)
LockHeld ==
    \A w \in Worker : pc[w] = "commit" /\ local[w].file = file =>
        /\ Current(local[w].id, local[w].candidate)
        /\ \A v \in Worker : pc[v] = "commit" /\ local[v].file = file => v = w

(* What a restore is about to replace is in its recovery copy.                    *)
Recovering ==
    /\ acked \subseteq trail \cup recovered
    /\ operator = "replace" => trail \subseteq recovered

(* A scan read no more than there is now, and all of it if nothing was written.   *)
ScanBehind ==
    scan # NoScan =>
        /\ scan.file <= file
        /\ scan.file = file =>
            /\ \A d \in Diagnosis : Len(scan.seen["cases"].journal[d]) <= Len(journal[d])
            /\ scan.at = 3 => \A id \in Knowledge : scan.seen["knowledge"][id] # None =>
                 knowledge[id] # None /\ scan.seen["knowledge"][id].version <= knowledge[id].version
            /\ scan.quiet => /\ scan.seen["cases"] = [journal |-> journal, status |-> status]
                             /\ scan.at = 3 => scan.seen["knowledge"] = knowledge

(* Events are dated between the clock as it is now and as it was at first.        *)
Dated(x) == clock <= x.time /\ x.time <= MaxDisturbances
AllDated ==
    /\ \A x \in trail : Dated(x)
    /\ backup # None => \A x \in backup.trail : Dated(x)
    /\ \A w \in Worker : pc[w] # "idle" => Dated(local[w].event)

IInv ==
    /\ TypeOK /\ Named /\ LockHeld /\ AllDated
    /\ ~overtaken => StoreSound /\ Prepared /\ Recovering /\ ScanBehind

------------------------------------------------------------------------------
(* Databases.                                                                    *)

(* An operation on a diagnosis adds one entry to its journal; confirmed it is only *)
(* by a review of what was offered, and then it is closed (case.py:27-33, 195).     *)
LEMMA LifecycleStep ==
  ASSUME TypeOK, Lifecycle!Next
  PROVE  \E d \in Diagnosis, e \in Entry :
           /\ status[d] # "confirmed"
           /\ e.left = "confirmed" => e.operation = "confirm" /\ status[d] = "waiting_for_confirmation"
           /\ journal' = [journal EXCEPT ![d] = Append(journal[d], e)]
           /\ status' = [status EXCEPT ![d] = e.left]
<1>1. PICK d \in Diagnosis : \/ Lifecycle!Create(d) \/ Lifecycle!Run(d) \/ Lifecycle!Confirm(d)
                             \/ Lifecycle!Reject(d) \/ Lifecycle!AskForMore(d)
  BY DEF Lifecycle!Next
<1>2. ASSUME NEW operation, NEW left, Lifecycle!Record(d, operation, left),
             [operation |-> operation, left |-> left] \in Entry,
             status[d] # "confirmed",
             left = "confirmed" => operation = "confirm" /\ status[d] = "waiting_for_confirmation"
      PROVE  \E e \in Entry :
               /\ e.left = "confirmed" => e.operation = "confirm" /\ status[d] = "waiting_for_confirmation"
               /\ journal' = [journal EXCEPT ![d] = Append(journal[d], e)]
               /\ status' = [status EXCEPT ![d] = e.left]
  <2> DEFINE e == [operation |-> operation, left |-> left]
  <2>1. e.left = left /\ e.operation = operation /\ e \in Entry
    BY <1>2
  <2>2. journal' = [journal EXCEPT ![d] = Append(journal[d], e)] /\ status' = [status EXCEPT ![d] = e.left]
    BY <1>2 DEF Lifecycle!Record
  <2> QED
    BY <1>2, <2>1, <2>2
<1>3. CASE Lifecycle!Create(d)
  <2>1. [operation |-> "create", left |-> "created"] \in Entry
    BY DEF Entry, Statuses
  <2> QED
    BY <1>2, <1>3, <2>1 DEF Lifecycle!Create
<1>4. CASE Lifecycle!Run(d)
  <2>1. \A left \in Lifecycle!RunResults : /\ [operation |-> "run", left |-> left] \in Entry
                                           /\ left # "confirmed"
    BY DEF Lifecycle!RunResults, Entry, Statuses
  <2> QED
    BY <1>2, <1>4, <2>1 DEF Lifecycle!Run, Lifecycle!Runnable
<1>5. CASE Lifecycle!Confirm(d)
  <2>1. [operation |-> "confirm", left |-> "confirmed"] \in Entry
    BY DEF Entry, Statuses
  <2> QED
    BY <1>2, <1>5, <2>1 DEF Lifecycle!Confirm
<1>6. CASE Lifecycle!Reject(d)
  <2>1. [operation |-> "reject", left |-> "rejected"] \in Entry
    BY DEF Entry, Statuses
  <2> QED
    BY <1>2, <1>6, <2>1 DEF Lifecycle!Reject, Lifecycle!Closed
<1>7. CASE Lifecycle!AskForMore(d)
  <2>1. [operation |-> "request_more_info", left |-> "waiting_for_input"] \in Entry
    BY DEF Entry, Statuses
  <2> QED
    BY <1>2, <1>7, <2>1 DEF Lifecycle!AskForMore, Lifecycle!Closed
<1>8. status[d] # "confirmed"
  BY <1>1 DEF Lifecycle!Create, Lifecycle!Run, Lifecycle!Confirm, Lifecycle!Reject,
              Lifecycle!AskForMore, Lifecycle!Runnable, Lifecycle!Closed
<1> QED
  BY <1>1, <1>3, <1>4, <1>5, <1>6, <1>7, <1>8

(* Diagnoses and candidates have no id in common, so versions have one owner.     *)
LEMMA VersionType ==
  ASSUME NEW j \in [Diagnosis -> Seq(Entry)], NEW kn \in Candidates, NEW e \in Entity
  PROVE  VersionOf(j, kn, e) \in Nat
<1>1. CASE e \in Diagnosis
  BY <1>1, LenProperties DEF VersionOf
<1>2. CASE e \in Knowledge /\ e \notin Diagnosis
  BY <1>2 DEF VersionOf, Candidates, Candidate
<1> QED
  BY <1>1, <1>2 DEF Entity

LEMMA KnowledgeVersion ==
  ASSUME NEW j, NEW kn, NEW id \in Knowledge
  PROVE  VersionOf(j, kn, id) = IF kn[id] = None THEN 0 ELSE kn[id].version
BY IdsDiffer DEF VersionOf, Knowledge

(* The event of the next version of one entity keeps a trail complete.            *)
LEMMA NextVersion ==
  ASSUME NEW j1, NEW kn1, NEW tr1, NEW j2, NEW kn2, NEW e \in Entity, NEW x,
         OneEventPerVersion(j1, kn1, tr1), VersionOf(j1, kn1, e) \in Nat,
         x.entity = e, x.version = VersionOf(j1, kn1, e) + 1,
         VersionOf(j2, kn2, e) = x.version,
         \A f \in Entity : f # e => VersionOf(j2, kn2, f) = VersionOf(j1, kn1, f)
  PROVE  OneEventPerVersion(j2, kn2, tr1 \cup {x})
<1> DEFINE n == VersionOf(j1, kn1, e)
           tr2 == tr1 \cup {x}
<1>1. /\ \A f \in Entity : Versions(EventsFor(tr1, f)) = 1..VersionOf(j1, kn1, f)
      /\ \A y, z \in tr1 : y.entity = z.entity /\ y.version = z.version => y = z
  BY DEF OneEventPerVersion
<1>2. ASSUME NEW f \in Entity, f # e PROVE Versions(EventsFor(tr2, f)) = 1..VersionOf(j2, kn2, f)
  <2>1. EventsFor(tr2, f) = EventsFor(tr1, f)
    BY <1>2 DEF EventsFor
  <2> QED
    BY <1>1, <1>2, <2>1
<1>3. Versions(EventsFor(tr2, e)) = 1..VersionOf(j2, kn2, e)
  <2>1. EventsFor(tr2, e) = EventsFor(tr1, e) \cup {x}
    BY DEF EventsFor
  <2>2. Versions(EventsFor(tr2, e)) = Versions(EventsFor(tr1, e)) \cup {x.version}
    BY <2>1 DEF Versions
  <2>3. Versions(EventsFor(tr1, e)) = 1..n
    BY <1>1
  <2> HIDE DEF n
  <2>4. n \in Nat /\ VersionOf(j2, kn2, e) = n + 1 /\ x.version = n + 1
    BY DEF n
  <2>5. 1..(n + 1) = 1..n \cup {n + 1}
    BY <2>4
  <2> QED
    BY <2>2, <2>3, <2>4, <2>5
<1>4. \A y \in tr1 : y.entity = e => y.version # n + 1
  <2>1. ASSUME NEW y \in tr1, y.entity = e, y.version = n + 1 PROVE FALSE
    <3>1. y.version \in Versions(EventsFor(tr1, e))
      BY <2>1 DEF Versions, EventsFor
    <3>2. n + 1 \in 1..n
      BY <1>1, <2>1, <3>1
    <3> HIDE DEF n
    <3>3. n \in Nat
      BY DEF n
    <3> QED
      BY <3>2, <3>3
  <2> QED
    BY <2>1
<1>5. \A y, z \in tr2 : y.entity = z.entity /\ y.version = z.version => y = z
  BY <1>1, <1>4
<1> QED
  BY <1>2, <1>3, <1>5 DEF OneEventPerVersion

(* An operation on a diagnosis keeps the database sound.                          *)
LEMMA CaseKeepsSound ==
  ASSUME NEW j \in [Diagnosis -> Seq(Entry)], NEW s \in [Diagnosis -> Statuses \cup {"absent"}],
         NEW kn \in Candidates, NEW tr,
         Sound(j, s, kn, tr), NEW d \in Diagnosis, NEW e \in Entry,
         s[d] # "confirmed",
         e.left = "confirmed" => e.operation = "confirm" /\ s[d] = "waiting_for_confirmation",
         NEW x, x.entity = d, x.version = Len(j[d]) + 1
  PROVE  LET j2 == [j EXCEPT ![d] = Append(j[d], e)]
             s2 == [s EXCEPT ![d] = e.left]
         IN  /\ Sound(j2, s2, kn, tr \cup {x})
             /\ \A k : Rightful(j, s, k) => Rightful(j2, s2, k)
             /\ \A f \in Diagnosis : Len(j[f]) <= Len(j2[f])
<1> DEFINE j2 == [j EXCEPT ![d] = Append(j[d], e)]
           s2 == [s EXCEPT ![d] = e.left]
           n == Len(j[d])
<1>1. /\ n \in Nat /\ j2[d] = Append(j[d], e) /\ Append(j[d], e) \in Seq(Entry)
      /\ Len(j2[d]) = n + 1 /\ j2[d][n + 1] = e
      /\ \A k \in 1..n : j2[d][k] = j[d][k]
      /\ j2 \in [Diagnosis -> Seq(Entry)]
  BY AppendProperties, LenProperties
<1>2. /\ s2[d] = e.left /\ \A f \in Diagnosis : f # d => j2[f] = j[f] /\ s2[f] = s[f]
      /\ \A f \in Diagnosis : Len(j[f]) \in Nat
  BY LenProperties
<1> HIDE DEF j2, s2
<1>3. ASSUME NEW k, Rightful(j, s, k) PROVE Rightful(j2, s2, k)
  BY <1>2, <1>3 DEF Rightful
<1>4. Lasting(j2, s2)
  <2>1. j2[d] # <<>> /\ Last(j2[d]) = e
    BY <1>1, EmptySeq DEF Last
  <2>2. ConfirmedAsOffered(j2[d])
    <3> SUFFICES ASSUME e.left = "confirmed"
                 PROVE  /\ e.operation = "confirm" /\ Len(j2[d]) > 1
                        /\ j2[d][Len(j2[d]) - 1].left = "waiting_for_confirmation"
      BY <2>1 DEF ConfirmedAsOffered
    <3>1. s[d] = "waiting_for_confirmation" /\ e.operation = "confirm"
      OBVIOUS
    <3>2. j[d] # <<>> /\ j[d][n].left = "waiting_for_confirmation"
      BY <3>1 DEF Sound, Lasting, Last
    <3>3. n # 0
      BY <3>2, EmptySeq
    <3>4. n \in 1..n /\ Len(j2[d]) - 1 = n
      BY <1>1, <3>3
    <3> QED
      BY <1>1, <3>1, <3>2, <3>4
  <2> QED
    BY <1>2, <2>1, <2>2 DEF Sound, Lasting
<1>5. OneEventPerVersion(j2, kn, tr \cup {x})
  <2>1. d \in Entity /\ VersionOf(j, kn, d) = n /\ VersionOf(j2, kn, d) = n + 1
    BY <1>1 DEF Entity, VersionOf
  <2>2. \A f \in Entity : f # d => VersionOf(j2, kn, f) = VersionOf(j, kn, f)
    BY <1>2 DEF VersionOf
  <2>3. OneEventPerVersion(j, kn, tr) /\ n \in Nat
    BY <1>1 DEF Sound
  <2> HIDE DEF n
  <2>4. x.version = n + 1
    BY DEF n
  <2> QED
    BY <2>1, <2>2, <2>3, <2>4, NextVersion
<1>6. Governed(j2, s2, kn)
  BY <1>3 DEF Sound, Governed
<1>7. \A f \in Diagnosis : Len(j[f]) <= Len(j2[f])
  BY <1>1, <1>2
<1> QED
  BY <1>3, <1>4, <1>5, <1>6, <1>7 DEF Sound, j2, s2

(* So does the commit of a rightful candidate at the version it was made from.    *)
LEMMA CommitKeepsSound ==
  ASSUME NEW j \in [Diagnosis -> Seq(Entry)], NEW s, NEW kn \in Candidates, NEW tr,
         Sound(j, s, kn, tr), NEW id \in Knowledge, NEW k \in Candidate,
         k.version = IF kn[id] = None THEN 0 ELSE kn[id].version,
         k.version = Len(k.reviews), Rightful(j, s, k),
         NEW x, x.entity = id, x.version = k.version + 1
  PROVE  LET kn2 == [kn EXCEPT ![id] = [k EXCEPT !.version = k.version + 1]]
         IN  Sound(j, s, kn2, tr \cup {x})
<1> DEFINE stored == [k EXCEPT !.version = k.version + 1]
           kn2 == [kn EXCEPT ![id] = stored]
<1>1. /\ stored \in Candidate /\ stored.version = k.version + 1 /\ stored.reviews = k.reviews
      /\ stored.source = k.source /\ stored.conclusion = k.conclusion
      /\ stored.importer = k.importer /\ stored.status = k.status
  <2>1. k.version + 1 \in Nat
    BY DEF Candidate
  <2> QED
    BY <2>1 DEF Candidate
<1>2. /\ kn2[id] = stored /\ stored # None
      /\ \A i \in Knowledge : i # id => kn2[i] = kn[i]
  BY <1>1, NoneIsNoCandidate DEF Candidates
<1> HIDE DEF stored, kn2
<1>3. Rightful(j, s, stored)
  BY <1>1 DEF Rightful, HistoryFits
<1>4. Governed(j, s, kn2)
  BY <1>1, <1>2, <1>3 DEF Sound, Governed
<1>5. OneEventPerVersion(j, kn2, tr \cup {x})
  <2>1. /\ id \in Entity /\ VersionOf(j, kn, id) = k.version
        /\ VersionOf(j, kn2, id) = k.version + 1
    BY <1>1, <1>2, KnowledgeVersion DEF Entity
  <2>2. VersionOf(j, kn, id) \in Nat
    BY <2>1 DEF Candidate
  <2>3. \A f \in Entity : f # id => VersionOf(j, kn2, f) = VersionOf(j, kn, f)
    BY <1>2 DEF VersionOf, Entity
  <2> QED
    BY <2>1, <2>2, <2>3, NextVersion DEF Sound
<1> QED
  BY <1>4, <1>5 DEF Sound, stored, kn2

------------------------------------------------------------------------------
(* Type correctness.                                                             *)

LEMMA EventType ==
  ASSUME TypeOK, NEW e \in Entity, NEW version \in Nat,
         NEW by \in Statuses \cup Diagnosis \cup Actor \cup Actor \X ReviewActions
  PROVE  /\ Event(e, version, by) \in AuditEvent
         /\ Event(e, version, by).entity = e /\ Event(e, version, by).version = version
         /\ Event(e, version, by).time = clock
<1>1. clock \in Nat /\ <<file, by>> \in Nat \X (Statuses \cup Diagnosis \cup Actor \cup Actor \X ReviewActions)
  BY Bounds DEF TypeOK
<1> QED
  BY <1>1 DEF Event, AuditEvent, Entity

LEMMA FinishType ==
  ASSUME TypeOK, NEW w \in Worker, Finish(w)
  PROVE  /\ pc' \in [Worker -> {"idle", "session", "execute", "commit"}]
         /\ local' \in [Worker -> Pending \cup {Idle}]
         /\ \A v \in Worker : pc'[v] # "idle" => v # w /\ pc'[v] = pc[v] /\ local'[v] = local[v] /\ local'[v] \in Pending
BY DEF TypeOK, Finish

LEMMA RequestType ==
  ASSUME TypeOK, NEW w \in Worker, NEW id \in Knowledge, NEW candidate \in Candidate,
         NEW by \in Statuses \cup Diagnosis \cup Actor \cup Actor \X ReviewActions,
         Request(w, id, candidate, by)
  PROVE  /\ TypeOK'
         /\ pc'[w] = "session" /\ local'[w].id = id /\ local'[w].candidate = candidate
         /\ local'[w].read = file /\ local'[w].file = file
         /\ local'[w].event = Event(id, candidate.version + 1, by)
         /\ \A v \in Worker : v # w => pc'[v] = pc[v] /\ local'[v] = local[v]
<1> DEFINE x == Event(id, candidate.version + 1, by)
           l == [container |-> container, id |-> id, candidate |-> candidate,
                 event |-> x, read |-> file, file |-> file]
<1>1. x \in AuditEvent
  <2>1. candidate.version + 1 \in Nat /\ id \in Entity
    BY DEF Candidate, Entity
  <2> QED
    BY <2>1, EventType
<1> HIDE DEF x
<1>2. l \in Pending /\ l.id = id /\ l.candidate = candidate /\ l.event = x /\ l.read = file /\ l.file = file
  BY <1>1 DEF Pending, TypeOK
<1>3. local' = [local EXCEPT ![w] = l] /\ pc' = [pc EXCEPT ![w] = "session"]
  BY DEF Request, x
<1> HIDE DEF l
<1>4. /\ pc' \in [Worker -> {"idle", "session", "execute", "commit"}]
      /\ local' \in [Worker -> Pending \cup {Idle}]
      /\ local'[w] = l /\ pc'[w] = "session"
      /\ \A v \in Worker : v # w => pc'[v] = pc[v] /\ local'[v] = local[v]
      /\ \A v \in Worker : pc'[v] # "idle" => local'[v] \in Pending
  BY <1>2, <1>3 DEF TypeOK
<1>5. requests' \in 0..MaxRequests
  BY Bounds DEF Request, TypeOK
<1>6. TypeOK'
  BY <1>4, <1>5 DEF TypeOK, Request, database
<1> QED
  BY <1>2, <1>4, <1>6 DEF x

(* A conclusion is named by a number of the journal, or 0.                        *)
LEMMA ConclusionType ==
  ASSUME NEW entries \in Seq(Entry)
  PROVE  ConclusionOf(entries) \in Nat
<1>1. Offers(entries) \subseteq 1..Len(entries) /\ Len(entries) \in Nat
  BY LenProperties DEF Offers
<1>2. ASSUME Offers(entries) # {} PROVE Max(Offers(entries)) \in Offers(entries)
  <2> DEFINE S == Offers(entries)
             T == {Len(entries) - x : x \in S}
  <2>1. \A x \in S : x \in Nat /\ x <= Len(entries)
    BY <1>1
  <2>2. T \subseteq Nat /\ T # {}
    BY <1>1, <1>2, <2>1
  <2>3. PICK m \in T : \A y \in T : m <= y
    <3>1. \E m \in T : \A y \in T : ~ (<<y, m>> \in OpToRel(<, Nat))
      BY <2>2, NatLessThanWellFounded, WFMin
    <3>2. \A m, y \in Nat : ~ (<<y, m>> \in OpToRel(<, Nat)) => m <= y
      BY DEF OpToRel
    <3> QED
      BY <2>2, <3>1, <3>2
  <2>4. \E x \in S : \A y \in S : x >= y
    <3>1. PICK x \in S : m = Len(entries) - x
      BY <2>3
    <3>2. \A y \in S : Len(entries) - x <= Len(entries) - y
      BY <2>3, <3>1
    <3>3. \A y \in S : x >= y
      BY <1>1, <2>1, <3>2
    <3> QED
      BY <3>3
  <2> HIDE DEF S
  <2>5. Max(S) \in S
    BY <2>4 DEF Max
  <2> QED
    BY <2>5 DEF S
<1> QED
  BY <1>1, <1>2 DEF ConclusionOf

LEMMA GenerateAsks ==
  ASSUME TypeOK, NEW w \in Worker, NEW d \in Diagnosis, Generate(w, d)
  PROVE  /\ CanGenerate(journal[d], status[d])
         /\ \E id \in Generated :
              LET k == NewCandidate(d, ConclusionOf(journal[d]), None) IN
              id \in Knowledge /\ k \in Candidate /\ Request(w, id, k, d)
<1>1. PICK id \in Generated : Request(w, id, NewCandidate(d, ConclusionOf(journal[d]), None), d)
  BY DEF Generate
<1>2. NewCandidate(d, ConclusionOf(journal[d]), None) \in Candidate
  <2>1. ConclusionOf(journal[d]) \in Nat
    BY ConclusionType DEF TypeOK
  <2> QED
    BY <2>1, NewCandidateType
<1> QED
  BY <1>1, <1>2 DEF Knowledge, Generate

LEMMA ImportAsks ==
  ASSUME TypeOK, NEW w \in Worker, NEW s \in Seed, NEW actor \in Actor, Import(w, s, actor)
  PROVE  LET k == NewCandidate(s, 0, actor) IN
         s \in Knowledge /\ k \in Candidate /\ Request(w, s, k, actor)
BY NewCandidateType DEF Import, Knowledge

LEMMA ReviewAsks ==
  ASSUME TypeOK, NEW w \in Worker, NEW id \in Knowledge, NEW action \in ReviewActions,
         NEW reviewer \in Actor, Review(w, id, action, reviewer)
  PROVE  LET k == Reviewed(knowledge[id], action, reviewer) IN
         /\ knowledge[id] \in Candidate /\ knowledge[id] # None
         /\ MayReview(knowledge[id], action, reviewer)
         /\ k \in Candidate /\ Request(w, id, k, <<reviewer, action>>)
<1>1. knowledge[id] \in Candidate
  BY DEF Review, TypeOK, Candidates
<1> QED
  BY <1>1, ReviewedType DEF Review

LEMMA RequestsType ==
  ASSUME TypeOK, NEW w \in Worker,
         \/ \E d \in Diagnosis : Generate(w, d)
         \/ \E s \in Seed, actor \in Actor : Import(w, s, actor)
         \/ \E id \in Knowledge, action \in ReviewActions, actor \in Actor :
              Review(w, id, action, actor)
  PROVE  TypeOK'
<1>1. ASSUME NEW d \in Diagnosis, Generate(w, d) PROVE TypeOK'
  BY <1>1, GenerateAsks, RequestType
<1>2. ASSUME NEW s \in Seed, NEW actor \in Actor, Import(w, s, actor) PROVE TypeOK'
  BY <1>2, ImportAsks, RequestType
<1>3. ASSUME NEW id \in Knowledge, NEW action \in ReviewActions, NEW actor \in Actor,
             Review(w, id, action, actor)
      PROVE  TypeOK'
  <2>1. <<actor, action>> \in Actor \X ReviewActions
    OBVIOUS
  <2> QED
    BY <1>3, <2>1, ReviewAsks, RequestType
<1> QED
  BY <1>1, <1>2, <1>3

LEMMA CaseStepType ==
  ASSUME TypeOK, CaseStep
  PROVE  TypeOK'
<1>1. PICK d \in Diagnosis, e \in Entry :
        /\ journal' = [journal EXCEPT ![d] = Append(journal[d], e)]
        /\ status' = [status EXCEPT ![d] = e.left]
  BY LifecycleStep DEF CaseStep
<1>2. Append(journal[d], e) \in Seq(Entry) /\ e.left \in Statuses
  <2>1. journal[d] \in Seq(Entry)
    BY DEF TypeOK
  <2>2. e.left \in Statuses
    BY DEF Entry
  <2> QED
    BY <2>1, <2>2, AppendProperties
<1>3. journal' \in [Diagnosis -> Seq(Entry)] /\ status' \in [Diagnosis -> Statuses \cup {"absent"}]
  BY <1>1, <1>2 DEF TypeOK
<1>4. PICK f \in Diagnosis :
        /\ journal'[f] # journal[f]
        /\ trail' = trail \cup {Event(f, Len(journal'[f]), status'[f])}
        /\ acked' = acked \cup {Event(f, Len(journal'[f]), status'[f])}
  BY DEF CaseStep
<1>5. f = d /\ status'[f] \in Statuses
  BY <1>1, <1>2, <1>4 DEF TypeOK
<1>6. Len(journal'[f]) \in Nat /\ f \in Entity
  BY <1>3, LenProperties DEF Entity
<1>7. Event(f, Len(journal'[f]), status'[f]) \in AuditEvent
  BY <1>5, <1>6, EventType
<1>8. cases' \in 0..MaxCaseSteps
  BY Bounds DEF CaseStep, TypeOK
<1>9. scan' \in Scan \cup {NoScan}
  BY DEF CaseStep, Beside, TypeOK, Scan
<1>10. overtaken' \in BOOLEAN
  BY DEF CaseStep, Overtakes, TypeOK
<1> QED
  BY <1>3, <1>4, <1>7, <1>8, <1>9, <1>10 DEF TypeOK, CaseStep

LEMMA CommitType ==
  ASSUME TypeOK, NEW w \in Worker, Commit(w)
  PROVE  TypeOK'
<1> DEFINE l == local[w]
           stored == [l.candidate EXCEPT !.version = l.candidate.version + 1]
<1>1. /\ l \in Pending /\ l.id \in Knowledge /\ l.candidate \in Candidate /\ l.event \in AuditEvent
  BY DEF TypeOK, Commit, Pending
<1>2. stored \in Candidate
  <2>1. l.candidate.version + 1 \in Nat
    BY <1>1 DEF Candidate
  <2> QED
    BY <1>1, <2>1 DEF Candidate
<1> HIDE DEF stored
<1>3. \/ knowledge' = [knowledge EXCEPT ![l.id] = stored] /\ trail' = trail \cup {l.event}
      \/ UNCHANGED <<knowledge, trail>>
  BY DEF Commit, stored
<1>4. knowledge' \in Candidates /\ trail' \subseteq AuditEvent /\ acked' \subseteq AuditEvent
  BY <1>1, <1>2, <1>3 DEF TypeOK, Candidates, Commit
<1>5. scan' \in Scan \cup {NoScan}
  BY DEF Commit, Beside, TypeOK, Scan
<1>6. overtaken' \in BOOLEAN
  BY DEF Commit, Overtakes, TypeOK
<1> QED
  BY <1>4, <1>5, <1>6, FinishType DEF TypeOK, Commit, counters

(* What a scan reads is what it is typed to see.                                 *)
LEMMA Reads ==
  /\ ScanOrder[1] = "cases" /\ ScanOrder[2] = "knowledge" /\ ScanOrder[3] = "audit"
  /\ Reading("cases") = [journal |-> journal, status |-> status]
  /\ Reading("knowledge") = knowledge /\ Reading("audit") = trail
BY DEF ScanOrder, Reading

LEMMA StartScanIs ==
  ASSUME StartScan
  PROVE  scan' = [at |-> 2, container |-> container, file |-> file, quiet |-> TRUE,
                  seen |-> [cases |-> [journal |-> journal, status |-> status]]]
BY Reads DEF StartScan

LEMMA ScanReadIs ==
  ASSUME TypeOK, ScanRead
  PROVE  \/ scan' = NoScan
         \/ /\ scan # NoScan /\ scan.at = 2
            /\ scan' = [at |-> 3, container |-> scan.container, file |-> scan.file,
                        quiet |-> scan.quiet,
                        seen |-> [cases |-> scan.seen.cases, knowledge |-> knowledge]]
<1>1. scan \in Scan
  BY DEF ScanRead, TypeOK
<1>2. CASE Answers(scan.container) /\ scan.at < 3
  <2>1. scan \in [at : {2}, container : Nat, file : Nat, quiet : BOOLEAN, seen : [cases : Cases]]
    BY <1>1, <1>2 DEF Scan
  <2>2. DOMAIN scan.seen = {"cases"} /\ scan.at = 2
    BY <2>1
  <2>3. Seen = [p \in {"cases", "knowledge"} |-> IF p = "knowledge" THEN knowledge ELSE scan.seen[p]]
    BY <2>2, Reads DEF Seen
  <2>4. Seen = [cases |-> scan.seen.cases, knowledge |-> knowledge]
    BY <2>3
  <2>5. scan' = [scan EXCEPT !.at = 3, !.seen = Seen]
    BY <1>2, <2>2 DEF ScanRead
  <2> QED
    BY <1>1, <2>1, <2>2, <2>4, <2>5 DEF ScanRead
<1> QED
  BY <1>2 DEF ScanRead

LEMMA OtherRequestsType ==
  ASSUME TypeOK, NEW w \in Worker, OpenSession(w) \/ Execute(w) \/ WriteFails(w)
  PROVE  TypeOK'
<1>1. CASE OpenSession(w)
  <2>1. CASE Finish(w)
    BY <1>1, <2>1, FinishType DEF TypeOK, OpenSession, database, counters
  <2>2. CASE pc' = [pc EXCEPT ![w] = "execute"] /\ UNCHANGED local
    <3>1. local[w] \in Pending
      BY <1>1 DEF TypeOK, OpenSession
    <3>2. /\ pc' \in [Worker -> {"idle", "session", "execute", "commit"}]
          /\ \A v \in Worker : pc'[v] # "idle" => local[v] \in Pending
      BY <2>2, <3>1 DEF TypeOK
    <3> QED
      BY <1>1, <2>2, <3>2 DEF TypeOK, OpenSession, database, counters
  <2> QED
    BY <1>1, <2>1, <2>2 DEF OpenSession
<1>2. CASE Execute(w)
  <2>1. CASE Finish(w)
    BY <1>2, <2>1, FinishType DEF TypeOK, Execute, database, counters
  <2>2. CASE pc' = [pc EXCEPT ![w] = "commit"] /\ local' = [local EXCEPT ![w].file = file]
    <3>1. local[w] \in Pending
      BY <1>2 DEF TypeOK, Execute
    <3>2. [local[w] EXCEPT !.file = file] \in Pending
      BY <3>1 DEF Pending, TypeOK
    <3>3. /\ pc' \in [Worker -> {"idle", "session", "execute", "commit"}]
          /\ local' \in [Worker -> Pending \cup {Idle}]
          /\ \A v \in Worker : pc'[v] # "idle" => local'[v] \in Pending
      BY <2>2, <3>2 DEF TypeOK
    <3> QED
      BY <1>2, <3>3 DEF TypeOK, Execute, database, counters
  <2> QED
    BY <1>2, <2>1, <2>2 DEF Execute
<1>3. CASE WriteFails(w)
  <2>1. disturbed' \in 0..MaxDisturbances /\ MaxDisturbances <= clock + disturbed'
    BY <1>3, Bounds DEF WriteFails, TypeOK
  <2> QED
    BY <1>3, <2>1, FinishType DEF TypeOK, WriteFails, database
<1> QED
  BY <1>1, <1>2, <1>3

LEMMA ScansType ==
  ASSUME TypeOK, StartScan \/ ScanRead
  PROVE  TypeOK'
<1>1. [journal |-> journal, status |-> status] \in Cases
  BY DEF TypeOK, Cases
<1>2. CASE StartScan
  <2>1. scan' \in Scan
    <3>1. container \in Nat /\ file \in Nat
      BY DEF TypeOK
    <3>2. scan' \in [at : {2}, container : Nat, file : Nat, quiet : BOOLEAN, seen : [cases : Cases]]
      <4> DEFINE now == [journal |-> journal, status |-> status]
                 first == [cases |-> now]
      <4>1. scan' = [at |-> 2, container |-> container, file |-> file, quiet |-> TRUE, seen |-> first]
        BY <1>2, StartScanIs
      <4>2. now \in Cases
        BY <1>1
      <4> HIDE DEF now
      <4>3. first \in [cases : Cases]
        BY <4>2
      <4> HIDE DEF first
      <4> QED
        BY <3>1, <4>1, <4>3
    <3> QED
      BY <3>2 DEF Scan
  <2>2. disturbed' \in 0..MaxDisturbances /\ MaxDisturbances <= clock + disturbed'
    BY <1>2, Bounds DEF StartScan, TypeOK
  <2> QED
    BY <1>2, <2>1, <2>2 DEF StartScan, TypeOK, database
<1>3. CASE ScanRead
  <2>1. CASE scan' = NoScan
    BY <1>3, <2>1 DEF ScanRead, TypeOK, database, counters
  <2>2. CASE /\ scan # NoScan /\ scan.at = 2
             /\ scan' = [at |-> 3, container |-> scan.container, file |-> scan.file,
                         quiet |-> scan.quiet,
                         seen |-> [cases |-> scan.seen.cases, knowledge |-> knowledge]]
    <3>1. scan \in [at : {2}, container : Nat, file : Nat, quiet : BOOLEAN, seen : [cases : Cases]]
      BY <2>2 DEF TypeOK, Scan
    <3>2. /\ scan.container \in Nat /\ scan.file \in Nat /\ scan.quiet \in BOOLEAN
          /\ scan.seen.cases \in Cases /\ knowledge \in Candidates
      BY <3>1 DEF TypeOK
    <3>3. scan' \in [at : {3}, container : Nat, file : Nat, quiet : BOOLEAN,
                     seen : [cases : Cases, knowledge : Candidates]]
      BY <2>2, <3>2
    <3>4. scan' \in Scan
      BY <3>3 DEF Scan
    <3> QED
      BY <1>3, <3>4 DEF ScanRead, TypeOK, database, counters
  <2> QED
    BY <1>3, <2>1, <2>2, ScanReadIs
<1> QED
  BY <1>2, <1>3

LEMMA LivesType ==
  ASSUME TypeOK, Close \/ Reopen \/ Crash \/ SetClockBack
  PROVE  TypeOK'
<1>1. CASE Close
  BY <1>1 DEF Close, TypeOK, database, counters
<1>2. CASE Reopen
  BY <1>2 DEF Reopen, TypeOK, database, counters
<1>3. CASE Crash
  <2>1. disturbed' \in 0..MaxDisturbances /\ MaxDisturbances <= clock + disturbed'
    BY <1>3, Bounds DEF Crash, TypeOK
  <2> QED
    BY <1>3, <2>1 DEF Crash, TypeOK, database
<1>4. CASE SetClockBack
  <2>1. /\ disturbed' \in 0..MaxDisturbances /\ clock' \in 0..MaxDisturbances
        /\ MaxDisturbances <= clock' + disturbed'
    BY <1>4, Bounds DEF SetClockBack, TypeOK
  <2> QED
    BY <1>4, <2>1 DEF SetClockBack, TypeOK, database
<1> QED
  BY <1>1, <1>2, <1>3, <1>4

LEMMA RestoresType ==
  ASSUME TypeOK, CreateBackup \/ Restore \/ Replace
  PROVE  TypeOK'
<1>1. CASE CreateBackup
  <2>1. backup' \in Snapshot
    BY <1>1 DEF CreateBackup, TypeOK, Snapshot
  <2> QED
    BY <1>1, <2>1 DEF CreateBackup, TypeOK, database, counters
<1>2. CASE Restore
  <2>1. disturbed' \in 0..MaxDisturbances /\ MaxDisturbances <= clock + disturbed'
    BY <1>2, Bounds DEF Restore, TypeOK
  <2> QED
    BY <1>2, <2>1 DEF Restore, TypeOK, database
<1>3. CASE Replace
  <2>1. backup \in Snapshot
    BY <1>3 DEF Replace, TypeOK
  <2>2. ASSUME journal' = backup.journal, status' = backup.status,
               knowledge' = backup.knowledge, trail' = backup.trail,
               file' = file + 1, Beside, UNCHANGED disturbed
        PROVE  TypeOK'
    <3>1. /\ journal' \in [Diagnosis -> Seq(Entry)] /\ status' \in [Diagnosis -> Statuses \cup {"absent"}]
          /\ knowledge' \in Candidates /\ trail' \subseteq AuditEvent
      BY <2>1, <2>2 DEF Snapshot
    <3>2. scan' \in Scan \cup {NoScan}
      BY <2>2 DEF Beside, TypeOK, Scan
    <3>3. file' \in Nat
      BY <2>2 DEF TypeOK
    <3> QED
      BY <1>3, <2>2, <3>1, <3>2, <3>3 DEF Replace, TypeOK
  <2>3. ASSUME disturbed < MaxDisturbances, disturbed' = disturbed + 1,
               UNCHANGED <<database, file, scan>>
        PROVE  TypeOK'
    <3>1. disturbed' \in 0..MaxDisturbances /\ MaxDisturbances <= clock + disturbed'
      BY <2>3, Bounds DEF TypeOK
    <3> QED
      BY <1>3, <2>3, <3>1 DEF Replace, TypeOK, database
  <2> QED
    BY <1>3, <2>2, <2>3 DEF Replace
<1> QED
  BY <1>1, <1>2, <1>3

LEMMA InitType ==
  ASSUME Init
  PROVE  TypeOK
<1>1. journal \in [Diagnosis -> Seq(Entry)]
  BY InitialHistory DEF Init
<1>2. status \in [Diagnosis -> Statuses \cup {"absent"}]
  <2>1. \A d \in Diagnosis : journal[d] # <<>> => Last(journal[d]) \in Entry
    <3> SUFFICES ASSUME NEW d \in Diagnosis, journal[d] # <<>>
                 PROVE  Last(journal[d]) \in Entry
      OBVIOUS
    <3>1. journal[d] \in Seq(Entry)
      BY <1>1
    <3> QED
      BY <3>1 DEF Last
  <2>2. \A d \in Diagnosis : journal[d] # <<>> => Last(journal[d]).left \in Statuses
    BY <2>1 DEF Entry
  <2> QED
    BY <2>2 DEF Init
<1>3. PICK importer \in Actor \cup {None} :
         knowledge = [id \in Knowledge |->
            IF importer = None \/ id \notin Seed THEN None
            ELSE [NewCandidate(id, 0, importer) EXCEPT !.version = 1]]
  BY DEF Init
<1>4. knowledge \in Candidates
  <2>1. ASSUME NEW id \in Seed
        PROVE  [NewCandidate(id, 0, importer) EXCEPT !.version = 1] \in Candidate
    <3>1. NewCandidate(id, 0, importer) \in Candidate
      BY NewCandidateType
    <3> QED
      BY <3>1 DEF Candidate
  <2> QED
    BY <1>3, <2>1 DEF Candidates
<1>5. trail \subseteq AuditEvent
  <2>1. MaxDisturbances \in Nat
    BY Bounds
  <2>2. ASSUME NEW e \in Entity, NEW v \in Nat
        PROVE  [entity |-> e, version |-> v, time |-> MaxDisturbances, by |-> None] \in AuditEvent
    BY <2>1 DEF AuditEvent, Entity
  <2>3. ASSUME NEW d \in Diagnosis, NEW v \in DOMAIN journal[d] PROVE v \in Nat
    <3>1. journal[d] \in Seq(Entry)
      BY <1>1
    <3> QED
      BY <3>1, LenProperties
  <2>4. SUFFICES ASSUME NEW x \in trail PROVE x \in AuditEvent
    OBVIOUS
  <2>5. \/ \E id \in Knowledge : x = [entity |-> id, version |-> 1, time |-> MaxDisturbances, by |-> None]
        \/ \E d \in Diagnosis : \E v \in DOMAIN journal[d] :
             x = [entity |-> d, version |-> v, time |-> MaxDisturbances, by |-> None]
    BY <2>4 DEF Init
  <2> QED
    BY <2>2, <2>3, <2>5 DEF Entity
<1>6. clock \in 0..MaxDisturbances /\ MaxDisturbances <= clock + disturbed
  BY Bounds DEF Init
<1>7. /\ pc \in [Worker -> {"idle", "session", "execute", "commit"}]
      /\ local \in [Worker -> Pending \cup {Idle}]
      /\ \A w \in Worker : pc[w] = "idle"
  BY DEF Init
<1>8. scan \in Scan \cup {NoScan}
  BY DEF Init
<1>9. /\ file \in Nat /\ phase \in {"open", "closing", "closed"} /\ container \in Nat
      /\ backup \in Snapshot \cup {None} /\ operator \in {"idle", "replace"} /\ operator # "replace"
      /\ recovered \subseteq AuditEvent /\ acked \subseteq AuditEvent /\ overtaken \in BOOLEAN
  BY DEF Init
<1>10. cases \in 0..MaxCaseSteps /\ requests \in 0..MaxRequests /\ disturbed \in 0..MaxDisturbances
  BY Bounds DEF Init
<1> QED
  BY <1>1, <1>2, <1>4, <1>5, <1>6, <1>7, <1>8, <1>9, <1>10 DEF TypeOK

LEMMA NextType ==
  ASSUME TypeOK, [Next]_vars
  PROVE  TypeOK'
<1>1. CASE UNCHANGED vars
  BY <1>1 DEF vars, TypeOK, database, counters
<1>2. CASE Next
  BY <1>2, CaseStepType, RequestsType, OtherRequestsType, CommitType, ScansType, LivesType,
     RestoresType DEF Next
<1> QED
  BY <1>1, <1>2

(* In every state the database, its backup, the requests under way, the scan and   *)
(* the events have the shape the code gives them, whatever is restored or lost.    *)
THEOREM TypeCorrect == Spec => []TypeOK
<1>1. Init => TypeOK
  BY InitType
<1>2. TypeOK /\ [Next]_vars => TypeOK'
  BY NextType
<1> QED
  BY <1>1, <1>2, PTL DEF Spec

------------------------------------------------------------------------------
(* What the steps do to the requests that are under way.                         *)

(* One of the three operations of the application service is asked for.           *)
Asks(w) ==
    \/ \E d \in Diagnosis : Generate(w, d)
    \/ \E s \in Seed, actor \in Actor : Import(w, s, actor)
    \/ \E id \in Knowledge, action \in ReviewActions, actor \in Actor : Review(w, id, action, actor)

(* In a sound database, whoever asks has a rightful candidate in hand.            *)
LEMMA AsksRightfully ==
  ASSUME TypeOK, NEW w \in Worker, Asks(w)
  PROVE  \E id \in Knowledge, k \in Candidate,
            by \in Statuses \cup Diagnosis \cup Actor \cup Actor \X ReviewActions :
           /\ Request(w, id, k, by)
           /\ Sound(journal, status, knowledge, trail) =>
                k.version = Len(k.reviews) /\ Rightful(journal, status, k)
<1>1. ASSUME NEW d \in Diagnosis, Generate(w, d)
      PROVE  \E id \in Knowledge, k \in Candidate :
               /\ Request(w, id, k, d)
               /\ Sound(journal, status, knowledge, trail) =>
                    k.version = Len(k.reviews) /\ Rightful(journal, status, k)
  <2> DEFINE k == NewCandidate(d, ConclusionOf(journal[d]), None)
  <2>1. /\ CanGenerate(journal[d], status[d]) /\ k \in Candidate
        /\ \E id \in Knowledge : Request(w, id, k, d)
    BY <1>1, GenerateAsks
  <2>2. journal[d] \in Seq(Entry)
    BY DEF TypeOK
  <2>3. /\ k.source = d /\ k.conclusion = ConclusionOf(journal[d]) /\ k.version = 0
        /\ k.reviews = <<>> /\ k.status = "candidate"
    BY <2>2, ConclusionType, NewCandidateType
  <2> HIDE DEF k
  <2>4. ASSUME Sound(journal, status, knowledge, trail)
        PROVE  k.version = Len(k.reviews) /\ Rightful(journal, status, k)
    <3>1. status[d] = "confirmed"
      BY <2>1 DEF CanGenerate
    <3>2. journal[d] # <<>> /\ Last(journal[d]).left = "confirmed" /\ ConfirmedAsOffered(journal[d])
      BY <2>4, <3>1 DEF Sound, Lasting
    <3>3. k.conclusion = Len(journal[d]) - 1
      BY <2>2, <2>3, <3>2, ConclusionConfirmed
    <3>4. HistoryFits(k) /\ DOMAIN k.reviews = {}
      BY <2>1, <2>3, NewCandidateFits
    <3> QED
      BY <2>3, <3>1, <3>3, <3>4, EmptySeq DEF Rightful
  <2> QED
    BY <2>1, <2>4
<1>2. ASSUME NEW s \in Seed, NEW actor \in Actor, Import(w, s, actor)
      PROVE  \E id \in Knowledge, k \in Candidate :
               /\ Request(w, id, k, actor)
               /\ Sound(journal, status, knowledge, trail) =>
                    k.version = Len(k.reviews) /\ Rightful(journal, status, k)
  <2> DEFINE k == NewCandidate(s, 0, actor)
  <2>1. s \in Knowledge /\ k \in Candidate /\ Request(w, s, k, actor)
    BY <1>2, ImportAsks
  <2>2. k.source = s /\ k.version = 0 /\ k.reviews = <<>> /\ k.status = "candidate"
    BY NewCandidateType
  <2> HIDE DEF k
  <2>3. HistoryFits(k) /\ DOMAIN k.reviews = {}
    BY <2>1, <2>2, NewCandidateFits
  <2>4. s \notin Diagnosis
    BY IdsDiffer
  <2>5. k.version = Len(k.reviews) /\ Rightful(journal, status, k)
    BY <2>2, <2>3, <2>4, EmptySeq DEF Rightful
  <2> QED
    BY <2>1, <2>5
<1>3. ASSUME NEW id \in Knowledge, NEW action \in ReviewActions, NEW actor \in Actor,
             Review(w, id, action, actor)
      PROVE  \E k \in Candidate :
               /\ Request(w, id, k, <<actor, action>>)
               /\ Sound(journal, status, knowledge, trail) =>
                    k.version = Len(k.reviews) /\ Rightful(journal, status, k)
  <2> DEFINE old == knowledge[id]
             k == Reviewed(old, action, actor)
  <2>1. /\ old \in Candidate /\ old # None /\ MayReview(old, action, actor)
        /\ k \in Candidate /\ Request(w, id, k, <<actor, action>>)
    BY <1>3, ReviewAsks
  <2>2. /\ k.source = old.source /\ k.conclusion = old.conclusion
        /\ k.importer = old.importer /\ k.version = old.version
    BY <2>1, ReviewedType
  <2>3. /\ HistoryFits(k) /\ Len(k.reviews) = Len(old.reviews) + 1
        /\ \A i \in DOMAIN k.reviews : \/ i \in DOMAIN old.reviews /\ k.reviews[i] = old.reviews[i]
                                       \/ k.reviews[i].reviewer = actor
    BY <2>1, ReviewedFits
  <2>4. old.source \in Seed => old.importer # actor
    BY <2>1 DEF MayReview
  <2> HIDE DEF k
  <2>5. ASSUME Sound(journal, status, knowledge, trail)
        PROVE  k.version = Len(k.reviews) /\ Rightful(journal, status, k)
    <3>1. old.version = Len(old.reviews) + 1 /\ Rightful(journal, status, old)
      BY <2>1, <2>5 DEF Sound, Governed
    <3> HIDE DEF old
    <3> QED
      BY <2>2, <2>3, <2>4, <3>1 DEF Rightful
  <2> QED
    BY <2>1, <2>5
<1>4. CASE \E d \in Diagnosis : Generate(w, d)
  BY <1>1, <1>4
<1>5. CASE \E s \in Seed, actor \in Actor : Import(w, s, actor)
  BY <1>2, <1>5
<1>6. CASE \E id \in Knowledge, action \in ReviewActions, actor \in Actor : Review(w, id, action, actor)
  <2>1. PICK id \in Knowledge, action \in ReviewActions, actor \in Actor : Review(w, id, action, actor)
    BY <1>6
  <2>2. <<actor, action>> \in Statuses \cup Diagnosis \cup Actor \cup Actor \X ReviewActions
    OBVIOUS
  <2> QED
    BY <1>3, <2>1, <2>2
<1> QED
  BY <1>4, <1>5, <1>6 DEF Asks

(* A request that goes on is still about what it was about; it takes the write    *)
(* lock only when nobody holds it and the row is as it was read.                 *)
LEMMA RequestGoesOn ==
  ASSUME TypeOK, NEW w \in Worker,
         OpenSession(w) \/ Execute(w) \/ Commit(w) \/ WriteFails(w),
         NEW v \in Worker, pc'[v] # "idle"
  PROVE  /\ pc[v] # "idle" /\ local[v] \in Pending /\ file' = file
         /\ local'[v].id = local[v].id /\ local'[v].candidate = local[v].candidate
         /\ local'[v].event = local[v].event /\ local'[v].read = local[v].read
         /\ \/ local'[v] = local[v] /\ (pc'[v] = "commit" => pc[v] = "commit" /\ (Commit(w) => v # w))
            \/ /\ v = w /\ local'[v].file = file /\ ~Locked
               /\ Current(local[v].id, local[v].candidate)
               /\ \A u \in Worker : u # w => pc'[u] = pc[u] /\ local'[u] = local[u]
               /\ UNCHANGED knowledge
<1>1. CASE Finish(w)
  <2>1. v # w /\ pc'[v] = pc[v] /\ local'[v] = local[v] /\ local[v] \in Pending
    BY <1>1, FinishType DEF TypeOK
  <2> QED
    BY <2>1 DEF OpenSession, Execute, Commit, WriteFails
<1>2. CASE OpenSession(w) /\ ~Finish(w)
  <2>1. pc' = [pc EXCEPT ![w] = "execute"] /\ UNCHANGED <<local, file>> /\ pc[w] = "session"
    BY <1>2 DEF OpenSession
  <2>2. pc[v] # "idle" /\ (pc'[v] = "commit" => pc[v] = "commit" /\ v # w) /\ local'[v] = local[v]
    BY <2>1 DEF TypeOK
  <2>3. local[v] \in Pending
    BY <2>2 DEF TypeOK
  <2> QED
    BY <2>1, <2>2, <2>3
<1>3. CASE Execute(w) /\ ~Finish(w)
  <2>1. /\ pc' = [pc EXCEPT ![w] = "commit"] /\ local' = [local EXCEPT ![w].file = file]
        /\ UNCHANGED <<file, knowledge>> /\ pc[w] = "execute" /\ ~Locked
        /\ Current(local[w].id, local[w].candidate)
    BY <1>3 DEF Execute, database
  <2>2. CASE v = w
    <3>1. local[w] \in Pending
      BY <2>1 DEF TypeOK
    <3> DEFINE mine == [local[w] EXCEPT !.file = file]
    <3>2. /\ mine.id = local[w].id /\ mine.candidate = local[w].candidate
          /\ mine.event = local[w].event /\ mine.read = local[w].read /\ mine.file = file
      BY <3>1 DEF Pending
    <3>3. local' = [local EXCEPT ![w] = mine]
      BY <2>1
    <3> HIDE DEF mine
    <3>4. local'[w] = mine /\ \A u \in Worker : u # w => pc'[u] = pc[u] /\ local'[u] = local[u]
      BY <2>1, <3>3 DEF TypeOK
    <3> QED
      BY <2>1, <2>2, <3>1, <3>2, <3>4
  <2>3. CASE v # w
    <3>1. pc'[v] = pc[v] /\ local'[v] = local[v]
      BY <2>1, <2>3 DEF TypeOK
    <3>2. local[v] \in Pending
      BY <3>1 DEF TypeOK
    <3> QED
      BY <2>1, <2>3, <3>1, <3>2
  <2> QED
    BY <2>2, <2>3
<1> QED
  BY <1>1, <1>2, <1>3 DEF Commit, WriteFails

Serves(w) == OpenSession(w) \/ Execute(w) \/ Commit(w) \/ WriteFails(w)

(* Steps that touch neither the database nor a request.                          *)
Besides ==
    \/ StartScan \/ ScanRead \/ Close \/ Reopen \/ SetClockBack \/ CreateBackup \/ Restore
    \/ UNCHANGED vars

LEMMA BesidesKeep ==
  ASSUME Besides
  PROVE  UNCHANGED <<journal, status, knowledge, trail, file, pc, local, acked, overtaken>>
BY DEF Besides, StartScan, ScanRead, Close, Reopen, SetClockBack, CreateBackup, Restore, vars, database

LEMMA StepCases ==
  ASSUME [Next]_vars
  PROVE  \/ CaseStep \/ Crash \/ Replace \/ Besides
         \/ \E w \in Worker : Asks(w) \/ Serves(w)
BY DEF Next, Besides, Asks, Serves

LEMMA AsksKeep ==
  ASSUME NEW w \in Worker, Asks(w)
  PROVE  UNCHANGED <<journal, status, knowledge, trail, file, clock, scan, backup, operator,
                     recovered, acked, overtaken>>
BY DEF Asks, Generate, Import, Review, Request, database

LEMMA ServesKeep ==
  ASSUME NEW w \in Worker, Serves(w)
  PROVE  /\ UNCHANGED <<journal, status, file, clock, backup, operator, recovered>>
         /\ ~Commit(w) => UNCHANGED <<knowledge, trail, scan, acked, overtaken>>
BY DEF Serves, OpenSession, Execute, Commit, WriteFails, database

LEMMA NamedKept ==
  ASSUME TypeOK, Named, [Next]_vars
  PROVE  Named'
<1> USE DEF Named
<1>1. CASE CaseStep \/ Besides
  BY <1>1, BesidesKeep DEF CaseStep
<1>2. CASE Crash
  BY <1>2 DEF Crash
<1>3. CASE Replace
  <2>1. UNCHANGED <<pc, local>> /\ file' \in Nat /\ file <= file'
    BY <1>3 DEF Replace, TypeOK, database
  <2>2. \A w \in Worker : pc[w] # "idle" => local[w].file \in Nat
    BY DEF TypeOK, Pending
  <2> QED
    BY <2>1, <2>2 DEF TypeOK
<1>4. ASSUME NEW w \in Worker, Asks(w) PROVE Named'
  <2>1. PICK id \in Knowledge, k \in Candidate,
             by \in Statuses \cup Diagnosis \cup Actor \cup Actor \X ReviewActions : Request(w, id, k, by)
    BY <1>4, AsksRightfully
  <2>2. id \in Entity /\ k.version + 1 \in Nat
    BY DEF Entity, Candidate
  <2> DEFINE x == Event(id, k.version + 1, by)
  <2>3. x.entity = id /\ x.version = k.version + 1
    BY <2>2, EventType
  <2> HIDE DEF x
  <2>4. /\ pc'[w] = "session" /\ local'[w].id = id /\ local'[w].candidate = k
        /\ local'[w].read = file /\ local'[w].file = file /\ local'[w].event = x
        /\ \A v \in Worker : v # w => pc'[v] = pc[v] /\ local'[v] = local[v]
    BY <2>1, RequestType DEF x
  <2>5. file' = file /\ file \in Nat
    BY <2>1 DEF Request, TypeOK
  <2> QED
    BY <2>3, <2>4, <2>5
<1>5. ASSUME NEW w \in Worker, Serves(w) PROVE Named'
  <2> SUFFICES ASSUME NEW v \in Worker, pc'[v] # "idle"
               PROVE  /\ local'[v].event.entity = local'[v].id
                      /\ local'[v].event.version = local'[v].candidate.version + 1
                      /\ local'[v].read <= local'[v].file /\ local'[v].file <= file'
    OBVIOUS
  <2>1. /\ pc[v] # "idle" /\ local[v] \in Pending /\ file' = file
        /\ local'[v].id = local[v].id /\ local'[v].candidate = local[v].candidate
        /\ local'[v].event = local[v].event /\ local'[v].read = local[v].read
        /\ local'[v].file = local[v].file \/ local'[v].file = file
    BY <1>5, RequestGoesOn DEF Serves
  <2>2. local[v].read \in Nat /\ local[v].file \in Nat /\ file \in Nat
    BY <2>1 DEF Pending, TypeOK
  <2> QED
    BY <2>1, <2>2
<1> QED
  BY <1>1, <1>2, <1>3, <1>4, <1>5, StepCases

(* SQLite: one writer at a time (session.py:64-76), and the row is checked after   *)
(* the lock is taken, so that nothing changes it before the commit.               *)
LEMMA LockKept ==
  ASSUME TypeOK, Named, LockHeld, [Next]_vars
  PROVE  LockHeld'
<1> SUFFICES ASSUME NEW w \in Worker, pc'[w] = "commit", local'[w].file = file'
             PROVE  /\ Current(local[w].id, local[w].candidate)'
                    /\ \A v \in Worker : pc'[v] = "commit" /\ local'[v].file = file' => v = w
  BY DEF LockHeld
<1> USE DEF Current
<1>1. CASE CaseStep \/ Besides
  BY <1>1, BesidesKeep DEF CaseStep, LockHeld
<1>2. CASE Crash
  BY <1>2 DEF Crash
<1>3. CASE Replace
  <2>1. UNCHANGED <<pc, local>>
    BY <1>3 DEF Replace
  <2>2. CASE file' = file + 1
    <3>1. local[w].file \in Nat /\ file \in Nat /\ local[w].file <= file
      BY <2>1 DEF TypeOK, Pending, Named
    <3> QED
      BY <2>1, <2>2, <3>1
  <2>3. CASE UNCHANGED <<database, file>>
    BY <2>1, <2>3 DEF LockHeld, database
  <2> QED
    BY <1>3, <2>2, <2>3 DEF Replace
<1>4. ASSUME NEW u \in Worker, Asks(u)
      PROVE  /\ Current(local[w].id, local[w].candidate)'
             /\ \A v \in Worker : pc'[v] = "commit" /\ local'[v].file = file' => v = w
  <2>1. PICK id \in Knowledge, k \in Candidate,
             by \in Statuses \cup Diagnosis \cup Actor \cup Actor \X ReviewActions : Request(u, id, k, by)
    BY <1>4, AsksRightfully
  <2>2. /\ pc'[u] = "session"
        /\ \A v \in Worker : v # u => pc'[v] = pc[v] /\ local'[v] = local[v]
    BY <2>1, RequestType
  <2>3. UNCHANGED <<knowledge, file>>
    BY <2>1 DEF Request, database
  <2> QED
    BY <2>2, <2>3 DEF LockHeld
<1>5. ASSUME NEW u \in Worker, Serves(u)
      PROVE  /\ Current(local[w].id, local[w].candidate)'
             /\ \A v \in Worker : pc'[v] = "commit" /\ local'[v].file = file' => v = w
  <2>1. file' = file
    BY <1>5, RequestGoesOn DEF Serves
  <2>2. CASE /\ w = u /\ ~Locked /\ Current(local[w].id, local[w].candidate)
             /\ \A v \in Worker : v # u => pc'[v] = pc[v] /\ local'[v] = local[v]
             /\ UNCHANGED knowledge
    <3>1. \A v \in Worker : ~(pc[v] = "commit" /\ local[v].file = file)
      BY <2>2 DEF Locked
    <3>2. local'[w].id = local[w].id /\ local'[w].candidate = local[w].candidate
      BY <1>5, RequestGoesOn DEF Serves
    <3> QED
      BY <2>1, <2>2, <3>1, <3>2
  <2>3. CASE local'[w] = local[w] /\ pc[w] = "commit" /\ (Commit(u) => w # u)
    <3>1. local[w].file = file /\ Current(local[w].id, local[w].candidate)
      BY <2>1, <2>3 DEF LockHeld
    <3>2. UNCHANGED knowledge
      <4>1. CASE Commit(u)
        <5>1. pc[u] = "commit" /\ u # w
          BY <2>3, <4>1 DEF Commit
        <5>2. local[u].file # file
          BY <2>3, <3>1, <5>1 DEF LockHeld
        <5> QED
          BY <4>1, <5>2 DEF Commit
      <4> QED
        BY <1>5, <4>1 DEF Serves, OpenSession, Execute, WriteFails, database
    <3>3. ASSUME NEW v \in Worker, pc'[v] = "commit", local'[v].file = file' PROVE v = w
      <4>1. \/ local'[v] = local[v] /\ pc[v] = "commit"
            \/ ~Locked
        BY <1>5, <3>3, RequestGoesOn DEF Serves
      <4>2. Locked
        BY <2>3, <3>1 DEF Locked
      <4> QED
        BY <2>1, <2>3, <3>1, <3>3, <4>1, <4>2 DEF LockHeld
    <3> QED
      BY <2>3, <3>1, <3>2, <3>3
  <2> QED
    BY <1>5, <2>2, <2>3, RequestGoesOn DEF Serves
<1> QED
  BY <1>1, <1>2, <1>3, <1>4, <1>5, StepCases

(* The clock is only ever set back, and what happens is dated by it.              *)
LEMMA DatesKept ==
  ASSUME TypeOK, AllDated, [Next]_vars
  PROVE  AllDated'
<1>1. clock \in Nat /\ clock' \in Nat /\ clock' <= clock /\ clock <= MaxDisturbances /\ MaxDisturbances \in Nat
  <2>1. clock' = clock \/ clock' = clock - 1
    <3>1. CASE Besides
      BY <3>1 DEF Besides, StartScan, ScanRead, Close, Reopen, SetClockBack, CreateBackup, Restore, vars
    <3>2. CASE CaseStep \/ Crash \/ Replace
      BY <3>2 DEF CaseStep, Crash, Replace
    <3> QED
      BY <3>1, <3>2, StepCases, AsksKeep, ServesKeep
  <2>2. clock' \in 0..MaxDisturbances /\ clock \in 0..MaxDisturbances
    BY NextType DEF TypeOK
  <2> QED
    BY <2>1, <2>2, Bounds DEF TypeOK
<1>2. /\ trail \subseteq AuditEvent /\ \A x \in AuditEvent : x.time \in Nat
      /\ backup # None => backup.trail \subseteq AuditEvent
  BY DEF TypeOK, AuditEvent, Snapshot
<1>3. \A x \in AuditEvent : Dated(x) \/ x.time = clock => clock' <= x.time /\ x.time <= MaxDisturbances
  BY <1>1, <1>2 DEF Dated
<1>4. \A x \in trail' : clock' <= x.time /\ x.time <= MaxDisturbances
  <2>1. ASSUME NEW x \in trail'
        PROVE  x \in AuditEvent /\ (Dated(x) \/ x.time = clock)
    <3>1. CASE x \in trail
      BY <1>2, <3>1 DEF AllDated
    <3>2. CASE x \notin trail
      <4>1. CASE CaseStep
        <5>1. PICK d \in Diagnosis : x = Event(d, Len(journal'[d]), status'[d])
          BY <2>1, <3>2, <4>1 DEF CaseStep
        <5>2. x.time = clock
          BY <5>1 DEF Event
        <5>3. x \in AuditEvent
          BY NextType DEF TypeOK
        <5> QED
          BY <5>2, <5>3
      <4>2. CASE Replace
        BY <1>2, <2>1, <3>2, <4>2 DEF Replace, AllDated, TypeOK, database
      <4>3. ASSUME NEW w \in Worker, Commit(w) PROVE x \in AuditEvent /\ Dated(x)
        <5>1. x = local[w].event /\ pc[w] = "commit"
          BY <2>1, <3>2, <4>3 DEF Commit
        <5>2. x \in AuditEvent
          BY <5>1 DEF TypeOK, Pending
        <5> QED
          BY <5>1, <5>2 DEF AllDated
      <4>4. CASE UNCHANGED trail
        BY <2>1, <3>2, <4>4
      <4>5. CASE Crash
        BY <4>4, <4>5 DEF Crash, database
      <4>6. CASE Besides
        BY <4>4, <4>6, BesidesKeep
      <4>7. ASSUME NEW w \in Worker, Asks(w)
            PROVE  x \in AuditEvent /\ (Dated(x) \/ x.time = clock)
        BY <4>4, <4>7, AsksKeep
      <4>8. ASSUME NEW w \in Worker, Serves(w)
            PROVE  x \in AuditEvent /\ (Dated(x) \/ x.time = clock)
        BY <4>3, <4>4, <4>8, ServesKeep
      <4> QED
        BY <4>1, <4>2, <4>5, <4>6, <4>7, <4>8, StepCases
    <3> QED
      BY <3>1, <3>2
  <2> QED
    BY <1>3, <2>1
<1>5. backup' # None => \A x \in backup'.trail : clock' <= x.time /\ x.time <= MaxDisturbances
  <2>1. CASE CreateBackup
    BY <1>2, <1>3, <2>1 DEF CreateBackup, AllDated
  <2>2. CASE UNCHANGED backup
    BY <1>2, <1>3, <2>2 DEF AllDated
  <2> QED
    <3>1. CASE Besides
      BY <2>1, <2>2, <3>1 DEF Besides, StartScan, ScanRead, Close, Reopen, SetClockBack, Restore, vars
    <3>2. CASE CaseStep \/ Crash \/ Replace
      BY <2>2, <3>2 DEF CaseStep, Crash, Replace
    <3> QED
      BY <2>2, <3>1, <3>2, StepCases, AsksKeep, ServesKeep
<1>6. ASSUME NEW v \in Worker, pc'[v] # "idle"
      PROVE  clock' <= local'[v].event.time /\ local'[v].event.time <= MaxDisturbances
  <2>1. CASE pc[v] # "idle" /\ local'[v].event = local[v].event
    <3>1. local[v].event \in AuditEvent /\ Dated(local[v].event)
      BY <2>1 DEF TypeOK, Pending, AllDated
    <3> QED
      BY <1>3, <2>1, <3>1
  <2>2. CASE CaseStep \/ Besides \/ Replace
    BY <1>6, <2>1, <2>2, BesidesKeep DEF CaseStep, Replace
  <2>3. CASE Crash
    BY <1>6, <2>3 DEF Crash
  <2>4. ASSUME NEW w \in Worker, Asks(w)
        PROVE  clock' <= local'[v].event.time /\ local'[v].event.time <= MaxDisturbances
    <3>1. PICK id \in Knowledge, k \in Candidate,
               by \in Statuses \cup Diagnosis \cup Actor \cup Actor \X ReviewActions : Request(w, id, k, by)
      BY <2>4, AsksRightfully
    <3>2. id \in Entity /\ k.version + 1 \in Nat
      BY DEF Entity, Candidate
    <3> DEFINE x == Event(id, k.version + 1, by)
    <3>3. x \in AuditEvent /\ x.time = clock
      BY <3>2, EventType
    <3> HIDE DEF x
    <3>4. /\ local'[w].event = x
          /\ v # w => pc'[v] = pc[v] /\ local'[v] = local[v]
      BY <3>1, RequestType DEF x
    <3> QED
      BY <1>3, <1>6, <2>1, <3>3, <3>4
  <2>5. ASSUME NEW w \in Worker, Serves(w)
        PROVE  clock' <= local'[v].event.time /\ local'[v].event.time <= MaxDisturbances
    BY <1>6, <2>1, <2>5, RequestGoesOn DEF Serves
  <2> QED
    BY <2>2, <2>3, <2>4, <2>5, StepCases
<1> QED
  BY <1>4, <1>5, <1>6 DEF AllDated, Dated

------------------------------------------------------------------------------
(* Every step keeps the invariant, while no request is overtaken.                 *)

Good == StoreSound /\ Prepared /\ Recovering /\ ScanBehind

(* A write beside a scan leaves it what it has read.                             *)
LEMMA BesideScan ==
  ASSUME TypeOK, Beside, scan' # NoScan
  PROVE  /\ scan # NoScan /\ scan' = [scan EXCEPT !.quiet = FALSE]
         /\ scan'.file = scan.file /\ scan'.at = scan.at /\ scan'.seen = scan.seen
         /\ scan'.quiet = FALSE
<1>1. scan # NoScan /\ scan' = [scan EXCEPT !.quiet = FALSE]
  BY DEF Beside
<1>2. scan \in Scan
  BY <1>1 DEF TypeOK
<1> QED
  BY <1>1, <1>2 DEF Scan

(* What the scan read of the diagnoses.                                          *)
LEMMA ScanCases ==
  ASSUME TypeOK, scan # NoScan
  PROVE  /\ scan.seen["cases"] \in Cases /\ scan.file \in Nat /\ scan.at \in {2, 3}
         /\ scan.quiet \in BOOLEAN
         /\ scan.seen["cases"].journal \in [Diagnosis -> Seq(Entry)]
         /\ scan.at = 3 => scan.seen["knowledge"] \in Candidates
<1>1. scan \in Scan
  BY DEF TypeOK
<1>2. scan.seen["cases"] \in Cases /\ scan.file \in Nat /\ scan.at \in {2, 3} /\ scan.quiet \in BOOLEAN
  BY <1>1 DEF Scan
<1>3. scan.at = 3 => scan.seen["knowledge"] \in Candidates
  BY <1>1 DEF Scan
<1> QED
  BY <1>2, <1>3 DEF Cases

LEMMA CaseStepGood ==
  ASSUME TypeOK, Good, ~overtaken', CaseStep
  PROVE  Good'
<1>1. PICK d \in Diagnosis, e \in Entry :
        /\ status[d] # "confirmed"
        /\ e.left = "confirmed" => e.operation = "confirm" /\ status[d] = "waiting_for_confirmation"
        /\ journal' = [journal EXCEPT ![d] = Append(journal[d], e)]
        /\ status' = [status EXCEPT ![d] = e.left]
  BY LifecycleStep DEF CaseStep
<1> DEFINE x == Event(d, Len(journal'[d]), status'[d])
<1>2. trail' = trail \cup {x} /\ acked' = acked \cup {x}
  <2>1. PICK f \in Diagnosis :
          /\ journal'[f] # journal[f]
          /\ trail' = trail \cup {Event(f, Len(journal'[f]), status'[f])}
          /\ acked' = acked \cup {Event(f, Len(journal'[f]), status'[f])}
    BY DEF CaseStep
  <2>2. f = d
    BY <1>1, <2>1 DEF TypeOK
  <2> QED
    BY <2>1, <2>2
<1>3. x.entity = d /\ x.version = Len(journal[d]) + 1
  <2>1. journal[d] \in Seq(Entry) /\ journal'[d] = Append(journal[d], e)
    BY <1>1 DEF TypeOK
  <2>2. Len(journal'[d]) = Len(journal[d]) + 1
    BY <2>1, AppendProperties
  <2> QED
    BY <2>2 DEF Event
<1> HIDE DEF x
<1>4. /\ Sound(journal', status', knowledge, trail \cup {x})
      /\ \A k : Rightful(journal, status, k) => Rightful(journal', status', k)
      /\ \A f \in Diagnosis : Len(journal[f]) <= Len(journal'[f])
  <2>1. /\ journal \in [Diagnosis -> Seq(Entry)] /\ status \in [Diagnosis -> Statuses \cup {"absent"}]
        /\ knowledge \in Candidates
    BY DEF TypeOK
  <2>2. Sound(journal, status, knowledge, trail)
    BY DEF Good, StoreSound
  <2> QED
    BY <1>1, <1>3, <2>1, <2>2, CaseKeepsSound
<1>5. UNCHANGED <<knowledge, file, pc, local, backup, operator, recovered>> /\ operator # "replace" /\ Beside
  BY DEF CaseStep, Overtakes
<1>6. StoreSound'
  BY <1>2, <1>4, <1>5 DEF Good, StoreSound
<1>7. Prepared'
  BY <1>4, <1>5 DEF Good, Prepared
<1>8. Recovering'
  BY <1>2, <1>5 DEF Good, Recovering
<1>9. ScanBehind'
  <2> SUFFICES ASSUME scan' # NoScan PROVE ScanBehind'
    BY DEF ScanBehind
  <2>1. /\ scan # NoScan /\ scan'.file = scan.file /\ scan'.at = scan.at /\ scan'.seen = scan.seen
        /\ scan'.quiet = FALSE
    BY <1>5, BesideScan
  <2>2. scan.seen["cases"].journal \in [Diagnosis -> Seq(Entry)]
    BY <2>1, ScanCases
  <2>3. \A f \in Diagnosis : /\ Len(scan.seen["cases"].journal[f]) \in Nat
                             /\ Len(journal[f]) \in Nat /\ Len(journal'[f]) \in Nat
    BY <2>2, CaseStepType, LenProperties DEF TypeOK
  <2>4. scan.file = file =>
          \A f \in Diagnosis : Len(scan.seen["cases"].journal[f]) <= Len(journal'[f])
    <3> SUFFICES ASSUME scan.file = file, NEW f \in Diagnosis
                 PROVE  Len(scan.seen["cases"].journal[f]) <= Len(journal'[f])
      OBVIOUS
    <3>1. Len(scan.seen["cases"].journal[f]) <= Len(journal[f])
      BY <2>1 DEF Good, ScanBehind
    <3>2. Len(journal[f]) <= Len(journal'[f])
      BY <1>4
    <3>3. \A a, b, c \in Nat : a <= b /\ b <= c => a <= c
      OBVIOUS
    <3> QED
      BY <2>3, <3>1, <3>2, <3>3
  <2> QED
    BY <1>5, <2>1, <2>4 DEF Good, ScanBehind
<1> QED
  BY <1>6, <1>7, <1>8, <1>9 DEF Good

LEMMA AsksGood ==
  ASSUME TypeOK, Good, NEW w \in Worker, Asks(w)
  PROVE  Good'
<1>1. Sound(journal, status, knowledge, trail)
  BY DEF Good, StoreSound
<1>2. PICK id \in Knowledge, k \in Candidate,
           by \in Statuses \cup Diagnosis \cup Actor \cup Actor \X ReviewActions :
        /\ Request(w, id, k, by)
        /\ k.version = Len(k.reviews) /\ Rightful(journal, status, k)
  BY <1>1, AsksRightfully
<1>3. /\ local'[w].candidate = k
      /\ \A v \in Worker : v # w => pc'[v] = pc[v] /\ local'[v] = local[v]
  BY <1>2, RequestType
<1>4. UNCHANGED <<journal, status, knowledge, trail, file, scan, backup, operator, recovered, acked>>
  BY AsksKeep
<1>5. Prepared'
  BY <1>2, <1>3, <1>4 DEF Good, Prepared
<1>6. StoreSound' /\ Recovering' /\ ScanBehind'
  BY <1>4 DEF Good, StoreSound, Recovering, ScanBehind
<1> QED
  BY <1>5, <1>6 DEF Good

LEMMA ServesGood ==
  ASSUME TypeOK, Good, NEW w \in Worker, Serves(w), ~Commit(w)
  PROVE  Good'
<1>1. UNCHANGED <<journal, status, knowledge, trail, file, scan, backup, operator, recovered, acked>>
  BY ServesKeep
<1>2. \A v \in Worker : pc'[v] # "idle" =>
        /\ pc[v] # "idle" /\ local'[v].candidate = local[v].candidate
        /\ local'[v].read = local[v].read
  BY RequestGoesOn DEF Serves
<1>3. Prepared'
  BY <1>1, <1>2 DEF Good, Prepared
<1>4. StoreSound' /\ Recovering' /\ ScanBehind'
  BY <1>1 DEF Good, StoreSound, Recovering, ScanBehind
<1> QED
  BY <1>3, <1>4 DEF Good

(* The commit of a request that was not overtaken is made in the database it read *)
(* from, with the row as it was when the lock was taken.                          *)
LEMMA CommitInPlace ==
  ASSUME TypeOK, Named, LockHeld, Good, ~overtaken', NEW w \in Worker, Commit(w)
  PROVE  LET l == local[w] IN
         /\ l.id \in Knowledge /\ l.candidate \in Candidate /\ operator # "replace"
         /\ l.event.entity = l.id /\ l.event.version = l.candidate.version + 1
         /\ l.candidate.version = IF knowledge[l.id] = None THEN 0 ELSE knowledge[l.id].version
         /\ l.candidate.version = Len(l.candidate.reviews) /\ Rightful(journal, status, l.candidate)
         /\ knowledge' = [knowledge EXCEPT ![l.id] =
                            [l.candidate EXCEPT !.version = l.candidate.version + 1]]
         /\ trail' = trail \cup {l.event} /\ acked' \subseteq acked \cup {l.event}
<1> DEFINE l == local[w]
<1>1. pc[w] = "commit" /\ l \in Pending
  BY DEF Commit, TypeOK
<1>2. operator # "replace" /\ l.read = file
  BY DEF Commit, Overtakes
<1>3. l.file = file
  <2>1. l.read <= l.file /\ l.file <= file /\ l.file \in Nat /\ file \in Nat
    BY <1>1 DEF Named, Pending, TypeOK
  <2> QED
    BY <1>2, <2>1
<1>4. Current(l.id, l.candidate)
  BY <1>1, <1>3 DEF LockHeld
<1>5. l.id \in Knowledge /\ l.candidate \in Candidate
  BY <1>1 DEF Pending
<1>6. knowledge[l.id] # None => knowledge[l.id].version = Len(knowledge[l.id].reviews) + 1
  BY <1>5 DEF Good, StoreSound, Sound, Governed
<1>7. l.candidate.version = IF knowledge[l.id] = None THEN 0 ELSE knowledge[l.id].version
  BY <1>4 DEF Current
<1>8. /\ l.event.entity = l.id /\ l.event.version = l.candidate.version + 1
      /\ l.candidate.version = Len(l.candidate.reviews) /\ Rightful(journal, status, l.candidate)
  BY <1>1, <1>2 DEF Named, Good, Prepared
<1>9. /\ knowledge' = [knowledge EXCEPT ![l.id] = [l.candidate EXCEPT !.version = l.candidate.version + 1]]
      /\ trail' = trail \cup {l.event} /\ acked' \subseteq acked \cup {l.event}
  BY <1>3 DEF Commit
<1> QED
  BY <1>2, <1>5, <1>7, <1>8, <1>9

LEMMA CommitGood ==
  ASSUME TypeOK, Named, LockHeld, Good, ~overtaken', NEW w \in Worker, Commit(w)
  PROVE  Good'
<1> DEFINE l == local[w]
           stored == [l.candidate EXCEPT !.version = l.candidate.version + 1]
<1>1. /\ l.id \in Knowledge /\ l.candidate \in Candidate /\ operator # "replace"
      /\ l.event.entity = l.id /\ l.event.version = l.candidate.version + 1
      /\ l.candidate.version = IF knowledge[l.id] = None THEN 0 ELSE knowledge[l.id].version
      /\ l.candidate.version = Len(l.candidate.reviews) /\ Rightful(journal, status, l.candidate)
      /\ knowledge' = [knowledge EXCEPT ![l.id] = stored]
      /\ trail' = trail \cup {l.event} /\ acked' \subseteq acked \cup {l.event}
  BY CommitInPlace
<1>2. UNCHANGED <<journal, status, file, backup, operator, recovered>> /\ Beside
  BY ServesKeep DEF Serves, Commit
<1>3. Sound(journal, status, knowledge', trail')
  <2>1. journal \in [Diagnosis -> Seq(Entry)] /\ knowledge \in Candidates
    BY DEF TypeOK
  <2>2. Sound(journal, status, knowledge, trail)
    BY DEF Good, StoreSound
  <2> QED
    BY <1>1, <2>1, <2>2, CommitKeepsSound
<1>4. StoreSound'
  BY <1>2, <1>3 DEF Good, StoreSound
<1>5. Prepared'
  <2>1. \A v \in Worker : pc'[v] # "idle" => pc[v] # "idle" /\ local'[v] = local[v]
    BY FinishType DEF Commit
  <2> QED
    BY <1>2, <2>1 DEF Good, Prepared
<1>6. Recovering'
  BY <1>1, <1>2 DEF Good, Recovering
<1>7. ScanBehind'
  <2> SUFFICES ASSUME scan' # NoScan PROVE ScanBehind'
    BY DEF ScanBehind
  <2>1. /\ scan # NoScan /\ scan'.file = scan.file /\ scan'.at = scan.at /\ scan'.seen = scan.seen
        /\ scan'.quiet = FALSE
    BY <1>2, BesideScan
  <2>2. ASSUME scan.file = file, scan.at = 3, NEW id \in Knowledge, scan.seen["knowledge"][id] # None
        PROVE  knowledge'[id] # None /\ scan.seen["knowledge"][id].version <= knowledge'[id].version
    <3>1. knowledge[id] # None /\ scan.seen["knowledge"][id].version <= knowledge[id].version
      BY <2>1, <2>2 DEF Good, ScanBehind
    <3>2. knowledge[id] \in Candidate /\ scan.seen["knowledge"][id] \in Candidate
      BY <2>1, <2>2, <3>1, ScanCases DEF TypeOK, Candidates
    <3>3. knowledge[id].version \in Nat /\ scan.seen["knowledge"][id].version \in Nat
      BY <3>2 DEF Candidate
    <3>4. CASE id = l.id
      <4>1. knowledge'[id] = stored
        BY <1>1, <3>4 DEF TypeOK, Candidates
      <4>2. stored.version = knowledge[id].version + 1 /\ stored \in Candidate
        BY <1>1, <3>1, <3>3, <3>4 DEF Candidate
      <4> HIDE DEF stored
      <4> QED
        BY <3>1, <3>3, <4>1, <4>2, NoneIsNoCandidate
    <3>5. CASE id # l.id
      <4>1. knowledge'[id] = knowledge[id]
        BY <1>1, <3>5 DEF TypeOK, Candidates
      <4> QED
        BY <3>1, <4>1
    <3> QED
      BY <3>4, <3>5
  <2> QED
    BY <1>2, <2>1, <2>2 DEF Good, ScanBehind
<1> QED
  BY <1>4, <1>5, <1>6, <1>7 DEF Good

LEMMA ReplaceGood ==
  ASSUME TypeOK, Named, Good, Replace
  PROVE  Good'
<1>1. /\ operator = "replace" /\ operator' = "idle"
      /\ UNCHANGED <<pc, local, backup, recovered, acked>>
  BY DEF Replace
<1>2. backup # None /\ trail \subseteq recovered /\ acked \subseteq recovered
  BY <1>1 DEF TypeOK, Good, Recovering
<1>3. CASE UNCHANGED <<database, file, scan>>
  BY <1>1, <1>2, <1>3 DEF Good, StoreSound, Prepared, Recovering, ScanBehind, database
<1>4. CASE /\ journal' = backup.journal /\ status' = backup.status
           /\ knowledge' = backup.knowledge /\ trail' = backup.trail
           /\ file' = file + 1 /\ Beside
  <2>1. StoreSound'
    BY <1>1, <1>2, <1>4 DEF Good, StoreSound
  <2>2. Prepared'
    <3>1. \A w \in Worker : pc[w] # "idle" =>
            /\ local[w].read \in Nat /\ local[w].file \in Nat /\ file \in Nat
            /\ local[w].read <= local[w].file /\ local[w].file <= file
      BY DEF TypeOK, Pending, Named
    <3>2. \A w \in Worker : pc'[w] # "idle" => local'[w].read # file'
      BY <1>1, <1>4, <3>1
    <3> QED
      BY <3>2 DEF Prepared
  <2>3. Recovering'
    BY <1>1, <1>2 DEF Recovering
  <2>4. ScanBehind'
    <3> SUFFICES ASSUME scan' # NoScan PROVE ScanBehind'
      BY DEF ScanBehind
    <3>1. scan # NoScan /\ scan'.file = scan.file
      BY <1>4, BesideScan
    <3>2. scan.file \in Nat /\ file \in Nat /\ scan.file <= file
      BY <3>1, ScanCases DEF TypeOK, Good, ScanBehind
    <3>3. scan'.file <= file' /\ scan'.file # file'
      BY <1>4, <3>1, <3>2
    <3> QED
      BY <3>3 DEF ScanBehind
  <2> QED
    BY <2>1, <2>2, <2>3, <2>4 DEF Good
<1> QED
  BY <1>3, <1>4 DEF Replace

LEMMA ScansGood ==
  ASSUME TypeOK, Good, StartScan \/ ScanRead
  PROVE  Good'
<1>1. UNCHANGED <<journal, status, knowledge, trail, file, pc, local, acked, backup, operator, recovered>>
  BY DEF StartScan, ScanRead, database
<1>2. StoreSound' /\ Prepared' /\ Recovering'
  BY <1>1 DEF Good, StoreSound, Prepared, Recovering
<1>3. ScanBehind'
  <2>1. CASE StartScan
    <3> DEFINE now == [journal |-> journal, status |-> status]
    <3>1. scan'.file = file /\ scan'.at = 2 /\ scan'.seen["cases"] = now
      BY <2>1, StartScanIs
    <3>2. now.journal = journal
      OBVIOUS
    <3>3. file \in Nat /\ \A d \in Diagnosis : Len(journal[d]) \in Nat
      BY LenProperties DEF TypeOK
    <3> QED
      BY <1>1, <3>1, <3>2, <3>3 DEF ScanBehind
  <2>2. CASE scan' = NoScan
    BY <2>2 DEF ScanBehind
  <2>3. CASE /\ scan # NoScan /\ scan.at = 2
             /\ scan' = [at |-> 3, container |-> scan.container, file |-> scan.file,
                         quiet |-> scan.quiet,
                         seen |-> [cases |-> scan.seen.cases, knowledge |-> knowledge]]
    <3>1. /\ scan'.file = scan.file /\ scan'.at = 3 /\ scan'.quiet = scan.quiet
          /\ scan'.seen["cases"] = scan.seen["cases"] /\ scan'.seen["knowledge"] = knowledge
      BY <2>3
    <3>2. \A id \in Knowledge : knowledge[id] # None => knowledge[id].version \in Nat
      BY DEF TypeOK, Candidates, Candidate
    <3> QED
      BY <1>1, <2>3, <3>1, <3>2 DEF Good, ScanBehind
  <2> QED
    BY <2>1, <2>2, <2>3, ScanReadIs
<1> QED
  BY <1>2, <1>3 DEF Good

LEMMA LivesGood ==
  ASSUME TypeOK, Good,
         Crash \/ Close \/ Reopen \/ SetClockBack \/ CreateBackup \/ Restore \/ UNCHANGED vars
  PROVE  Good'
<1> USE DEF Good, StoreSound, Prepared, Recovering, ScanBehind
<1>1. CASE Crash
  BY <1>1 DEF Crash, database
<1>2. CASE Close
  BY <1>2 DEF Close, database
<1>3. CASE Reopen
  BY <1>3 DEF Reopen, database
<1>4. CASE SetClockBack
  BY <1>4 DEF SetClockBack, database
<1>5. CASE CreateBackup
  BY <1>5 DEF CreateBackup, database
<1>6. CASE Restore
  BY <1>6 DEF Restore, database
<1>7. CASE UNCHANGED vars
  BY <1>7 DEF vars, database
<1> QED
  BY <1>1, <1>2, <1>3, <1>4, <1>5, <1>6, <1>7

(* The databases the program starts from are sound.                              *)
LEMMA InitSound ==
  ASSUME Init
  PROVE  Sound(journal, status, knowledge, trail)
<1>1. TypeOK
  BY InitType
<1>2. PICK importer \in Actor \cup {None} :
         knowledge = [id \in Knowledge |->
            IF importer = None \/ id \notin Seed THEN None
            ELSE [NewCandidate(id, 0, importer) EXCEPT !.version = 1]]
  BY DEF Init
<1>3. Lasting(journal, status)
  BY InitialHistory DEF Init, Lasting
<1>4. ASSUME NEW id \in Knowledge, knowledge[id] # None
      PROVE  /\ id \in Seed /\ knowledge[id] \in Candidate /\ knowledge[id].source = id
             /\ knowledge[id].version = 1 /\ knowledge[id].reviews = <<>> /\ knowledge[id].status = "candidate"
  <2>1. id \in Seed /\ knowledge[id] = [NewCandidate(id, 0, importer) EXCEPT !.version = 1]
    BY <1>2, <1>4
  <2> DEFINE k == NewCandidate(id, 0, importer)
  <2>2. k \in Candidate /\ k.source = id /\ k.reviews = <<>> /\ k.status = "candidate"
    <3>1. k \in Candidate
      BY <2>1, NewCandidateType
    <3> QED
      BY <3>1 DEF NewCandidate
  <2> HIDE DEF k
  <2>3. knowledge[id] \in Candidate
    BY <1>1, <1>4 DEF TypeOK, Candidates
  <2>4. knowledge[id] = [k EXCEPT !.version = 1]
    BY <2>1 DEF k
  <2> QED
    BY <2>1, <2>2, <2>3, <2>4 DEF Candidate
<1>5. Governed(journal, status, knowledge)
  <2> SUFFICES ASSUME NEW id \in Knowledge, knowledge[id] # None
               PROVE  /\ knowledge[id].version = Len(knowledge[id].reviews) + 1
                      /\ Rightful(journal, status, knowledge[id])
    BY DEF Governed
  <2> DEFINE k == knowledge[id]
  <2>1. /\ id \in Seed /\ k \in Candidate /\ k.source = id
        /\ k.version = 1 /\ k.reviews = <<>> /\ k.status = "candidate"
    BY <1>4
  <2> HIDE DEF k
  <2>2. HistoryFits(k) /\ Len(k.reviews) = 0 /\ DOMAIN k.reviews = {}
    BY <2>1, NewCandidateFits, EmptySeq
  <2>3. id \notin Diagnosis
    BY <2>1, IdsDiffer
  <2>4. k.version = Len(k.reviews) + 1 /\ Rightful(journal, status, k)
    BY <2>1, <2>2, <2>3 DEF Rightful
  <2> QED
    BY <2>4 DEF k
<1> DEFINE First(e, v) == [entity |-> e, version |-> v, time |-> MaxDisturbances, by |-> None]
<1>6. \A x : x \in trail <=>
        \/ \E id \in Knowledge : knowledge[id] # None /\ x = First(id, 1)
        \/ \E d \in Diagnosis : \E v \in DOMAIN journal[d] : x = First(d, v)
  BY DEF Init
<1>7. \A x, y \in trail : x.entity = y.entity /\ x.version = y.version => x = y
  <2>1. \A x \in trail : \E e, v : x = First(e, v)
    BY <1>6
  <2>2. \A x \in trail : x = First(x.entity, x.version)
    BY <2>1
  <2> HIDE DEF First
  <2> QED
    BY <2>2
<1>8. ASSUME NEW e \in Entity
      PROVE  Versions(EventsFor(trail, e)) = 1..VersionOf(journal, knowledge, e)
  <2>1. \A v : v \in Versions(EventsFor(trail, e)) <=> First(e, v) \in trail
    <3>1. \A x \in trail : x = First(x.entity, x.version)
      BY <1>6
    <3>2. \A v : First(e, v).entity = e /\ First(e, v).version = v
      OBVIOUS
    <3> HIDE DEF First
    <3> QED
      BY <3>1, <3>2 DEF Versions, EventsFor
  <2>2. \A v, f, u : First(e, v) = First(f, u) => e = f /\ v = u
    <3>1. \A f, u : First(f, u).entity = f /\ First(f, u).version = u
      OBVIOUS
    <3> HIDE DEF First
    <3> QED
      BY <3>1
  <2> HIDE DEF First
  <2>3. CASE e \in Diagnosis
    <3>1. e \notin Knowledge
      BY <2>3, IdsDiffer DEF Knowledge
    <3>2. \A v : First(e, v) \in trail <=> v \in DOMAIN journal[e]
      BY <1>6, <2>2, <2>3, <3>1
    <3>3. DOMAIN journal[e] = 1..Len(journal[e])
      BY <1>1, <2>3, LenProperties DEF TypeOK
    <3> QED
      BY <2>1, <2>3, <3>2, <3>3 DEF VersionOf
  <2>4. CASE e \in Knowledge
    <3>1. e \notin Diagnosis
      BY <2>4, IdsDiffer DEF Knowledge
    <3>2. \A v : First(e, v) \in trail <=> knowledge[e] # None /\ v = 1
      BY <1>6, <2>2, <2>4, <3>1
    <3>3. VersionOf(journal, knowledge, e) = IF knowledge[e] = None THEN 0 ELSE 1
      BY <1>4, <2>4, KnowledgeVersion
    <3>4. 1..1 = {1} /\ 1..0 = {}
      OBVIOUS
    <3> QED
      BY <2>1, <3>2, <3>3, <3>4
  <2> QED
    BY <2>3, <2>4 DEF Entity
<1> HIDE DEF First
<1> QED
  BY <1>3, <1>5, <1>7, <1>8 DEF Sound, OneEventPerVersion

LEMMA InitInvariant ==
  ASSUME Init
  PROVE  IInv
<1>1. TypeOK /\ Sound(journal, status, knowledge, trail)
  BY InitType, InitSound
<1>2. \A w \in Worker : pc[w] = "idle"
  BY DEF Init
<1>3. backup = None /\ acked = {} /\ operator = "idle" /\ scan = NoScan
  BY DEF Init
<1>4. Named /\ LockHeld /\ Prepared /\ Recovering /\ ScanBehind /\ StoreSound
  BY <1>1, <1>2, <1>3 DEF Named, LockHeld, Prepared, Recovering, ScanBehind, StoreSound
<1>5. AllDated
  <2>1. \A x \in trail : x.time = MaxDisturbances
    BY DEF Init
  <2>2. clock = MaxDisturbances /\ MaxDisturbances \in Nat
    BY Bounds DEF Init
  <2> QED
    BY <1>2, <1>3, <2>1, <2>2 DEF AllDated, Dated
<1> QED
  BY <1>1, <1>4, <1>5 DEF IInv

LEMMA StepInvariant ==
  ASSUME IInv, [Next]_vars
  PROVE  IInv'
<1>1. TypeOK /\ Named /\ LockHeld /\ AllDated
  BY DEF IInv
<1>2. TypeOK' /\ Named' /\ LockHeld' /\ AllDated'
  BY <1>1, NextType, NamedKept, LockKept, DatesKept
<1>3. ASSUME ~overtaken' PROVE Good'
  <2>1. overtaken \in BOOLEAN /\ (overtaken => overtaken')
    <3>1. ASSUME CaseStep \/ Crash \/ Replace PROVE overtaken => overtaken'
      BY <3>1 DEF CaseStep, Overtakes, Crash, Replace
    <3>2. ASSUME NEW w \in Worker, Serves(w) PROVE overtaken => overtaken'
      <4>1. CASE Commit(w)
        BY <4>1 DEF Commit, Overtakes
      <4>2. CASE ~Commit(w)
        BY <3>2, <4>2, ServesKeep
      <4> QED
        BY <4>1, <4>2
    <3>3. ASSUME Besides PROVE overtaken => overtaken'
      BY <3>3, BesidesKeep
    <3>4. ASSUME NEW w \in Worker, Asks(w) PROVE overtaken => overtaken'
      BY <3>4, AsksKeep
    <3>5. overtaken => overtaken'
      BY <3>1, <3>2, <3>3, <3>4, StepCases
    <3> QED
      BY <1>1, <3>5 DEF TypeOK
  <2>2. Good
    BY <1>3, <2>1 DEF IInv, Good
  <2>3. CASE Besides
    BY <1>1, <2>2, <2>3, ScansGood, LivesGood DEF Besides
  <2>4. ASSUME NEW w \in Worker, Serves(w) PROVE Good'
    BY <1>1, <1>3, <2>2, <2>4, ServesGood, CommitGood
  <2> QED
    BY <1>1, <1>3, <2>2, <2>3, <2>4, StepCases, CaseStepGood, LivesGood, ReplaceGood, AsksGood
<1> QED
  BY <1>2, <1>3 DEF IInv, Good

LEMMA Invariant == Spec => []IInv
<1>1. Init => IInv
  BY InitInvariant
<1>2. IInv /\ [Next]_vars => IInv'
  BY StepInvariant
<1> QED
  BY <1>1, <1>2, PTL DEF Spec

------------------------------------------------------------------------------
(* What follows from it.                                                         *)

(* A restore loses nothing that a caller was told of (backup.py, the recovery     *)
(* copy), whatever requests, crashes and failing steps come in between, as long   *)
(* as no request is committed past the copy.                                      *)
THEOREM AcknowledgedIsKept == Spec => []RestoreKeepsAcknowledged
<1>1. IInv => RestoreKeepsAcknowledged
  BY DEF IInv, TypeOK, Recovering, RestoreKeepsAcknowledged
<1> QED
  BY <1>1, Invariant, PTL

(* A complete trail has as many events of an entity as that has versions.         *)
LEMMA EventsCounted ==
  ASSUME NEW j, NEW kn, NEW tr, NEW e \in Entity, OneEventPerVersion(j, kn, tr),
         VersionOf(j, kn, e) \in Nat
  PROVE  /\ Versions(EventsFor(tr, e)) = 1..VersionOf(j, kn, e)
         /\ Cardinality(EventsFor(tr, e)) = VersionOf(j, kn, e)
         /\ Cardinality(Versions(EventsFor(tr, e))) = VersionOf(j, kn, e)
<1> DEFINE n == VersionOf(j, kn, e)
           events == EventsFor(tr, e)
           f == [x \in events |-> x.version]
<1>1. n \in Nat /\ Versions(events) = 1..n
  BY DEF OneEventPerVersion
<1>2. \A x, y \in events : x.version = y.version => x = y
  BY DEF OneEventPerVersion, EventsFor
<1> HIDE DEF n, events
<1>3. IsFiniteSet(1..n) /\ Cardinality(1..n) = n
  BY <1>1, FS_Interval
<1>4. f \in Injection(events, 1..n)
  BY <1>1, <1>2 DEF Injection, IsInjective, Versions
<1>5. f \in Surjection(events, 1..n)
  BY <1>1, <1>4 DEF Injection, Surjection, Versions
<1>6. Cardinality(events) = n
  BY <1>3, <1>4, <1>5, FS_Injection
<1> QED
  BY <1>1, <1>3, <1>6 DEF n, events

(* Whatever requests race, fail, retry or are restored over: a candidate has one  *)
(* event for each of its versions, its reviews are one legal course of decisions,  *)
(* nobody decided on the seed they imported, and what was made from a diagnosis    *)
(* rests on the conclusion that was confirmed there (knowledge.py,                *)
(* knowledge_governance.py, knowledge_repository.py).                             *)
THEOREM KnowledgeStaysGoverned == Spec => []KnowledgeIsGoverned
<1>1. ASSUME IInv PROVE KnowledgeIsGoverned
  <2> SUFFICES ASSUME ~overtaken, NEW id \in Knowledge, knowledge[id] # None
               PROVE  LET k == knowledge[id]
                          events == {x \in trail : x.entity = id}
                      IN  /\ {x.version : x \in events} = 1..k.version /\ Cardinality(events) = k.version
                          /\ k.version = Len(k.reviews) + 1 /\ HistoryFits(k)
                          /\ k.source \in Seed =>
                               \A i \in DOMAIN k.reviews : k.reviews[i].reviewer # k.importer
                          /\ k.source \in Diagnosis =>
                               LET entries == journal[k.source]
                               IN  /\ entries[Len(entries)].operation = "confirm"
                                   /\ k.conclusion = Len(entries) - 1
    BY DEF KnowledgeIsGoverned
  <2> DEFINE k == knowledge[id]
  <2>1. TypeOK /\ Sound(journal, status, knowledge, trail)
    BY <1>1 DEF IInv, StoreSound
  <2>2. k.version = Len(k.reviews) + 1 /\ Rightful(journal, status, k)
    BY <2>1 DEF Sound, Governed
  <2>3. id \in Entity /\ VersionOf(journal, knowledge, id) = k.version /\ k.version \in Nat
    BY <2>1, KnowledgeVersion DEF TypeOK, Candidates, Candidate, Entity
  <2>4. /\ Versions(EventsFor(trail, id)) = 1..k.version
        /\ Cardinality(EventsFor(trail, id)) = k.version
    <3>1. OneEventPerVersion(journal, knowledge, trail)
      BY <2>1 DEF Sound
    <3> HIDE DEF k
    <3> QED
      BY <2>3, <3>1, EventsCounted
  <2>5. ASSUME k.source \in Diagnosis
        PROVE  journal[k.source][Len(journal[k.source])].operation = "confirm"
    <3>1. status[k.source] = "confirmed"
      BY <2>2, <2>5 DEF Rightful
    <3> DEFINE d == k.source
    <3>2. journal[d] \in Seq(Entry)
      BY <2>1, <2>5 DEF TypeOK
    <3>3. journal[d] # <<>> /\ Last(journal[d]).left = "confirmed" /\ ConfirmedAsOffered(journal[d])
      BY <2>1, <2>5, <3>1 DEF Sound, Lasting
    <3> QED
      BY <3>2, <3>3, ConclusionConfirmed
  <2> QED
    BY <2>2, <2>4, <2>5 DEF Rightful, Versions, EventsFor
<1> QED
  BY <1>1, Invariant, PTL

------------------------------------------------------------------------------
(* The consistency scan.                                                         *)

(* In a complete trail, events of an entity whose version was read no later than   *)
(* the trail show no double and no gap, and out of order are only events whose     *)
(* times are (consistency.py, _check_audit_trails).                               *)
LEMMA TrailBlames ==
  ASSUME NEW j, NEW kn, NEW tr, NEW e \in Entity, OneEventPerVersion(j, kn, tr),
         VersionOf(j, kn, e) \in Nat, NEW v \in Nat, v <= VersionOf(j, kn, e)
  PROVE  LET found == TrailFindings(v, EventsFor(tr, e)) IN
         /\ found \cap {"duplicate_audit_version", "audit_version_gap"} = {}
         /\ "audit_version_out_of_order" \in found => \E x, y \in tr : x.time > y.time
         /\ v = VersionOf(j, kn, e) => found \subseteq {"audit_version_out_of_order"}
<1> DEFINE n == VersionOf(j, kn, e)
           events == EventsFor(tr, e)
           versions == Versions(events)
           found == TrailFindings(v, events)
<1>1. n \in Nat /\ v <= n /\ events \subseteq tr
  BY DEF EventsFor
<1>2. versions = 1..n /\ Cardinality(events) = n /\ Cardinality(versions) = n
  BY EventsCounted
<1>3. (1..v) \ versions = {}
  <2> HIDE DEF n, versions
  <2> QED
    BY <1>1, <1>2
<1>4. n > 0 => Max(versions) = n
  <2> HIDE DEF n, versions
  <2>1. n > 0 => n \in versions /\ \A y \in versions : n >= y /\ y \in Nat
    BY <1>1, <1>2
  <2>2. n > 0 => Max(versions) \in versions /\ \A y \in versions : Max(versions) >= y
    BY <2>1 DEF Max
  <2> QED
    BY <1>1, <2>1, <2>2
<1>5. n = 0 => events = {}
  <2>1. \A x \in events : x.version \in versions
    BY DEF Versions
  <2> HIDE DEF n, events, versions
  <2> QED
    BY <1>2, <2>1
<1>6. found \subseteq {"orphan_audit_event", "audit_version_out_of_order", "audit_version_ahead"}
  BY <1>2, <1>3 DEF TrailFindings, Versions
<1>7. ASSUME "audit_version_out_of_order" \in found PROVE \E x, y \in events : x.time > y.time
  BY <1>7 DEF TrailFindings
<1>8. ASSUME v = n PROVE found \subseteq {"audit_version_out_of_order"}
  <2>1. CASE n = 0
    <3>1. events = {}
      BY <1>5, <2>1
    <3> HIDE DEF events
    <3> QED
      BY <3>1 DEF TrailFindings
  <2>2. CASE n # 0
    <3>1. v # 0 /\ ~(Max(versions) > v)
      BY <1>1, <1>4, <1>8, <2>2
    <3> HIDE DEF n, events
    <3>2. "audit_version_ahead" \notin found
      BY <3>1 DEF TrailFindings, Versions
    <3>3. "orphan_audit_event" \notin found
      BY <3>1 DEF TrailFindings
    <3> HIDE DEF found
    <3> QED
      BY <1>6, <3>2, <3>3
  <2> QED
    BY <2>1, <2>2
<1> HIDE DEF found, events
<1>9. /\ found \cap {"duplicate_audit_version", "audit_version_gap"} = {}
      /\ "audit_version_out_of_order" \in found => \E x, y \in tr : x.time > y.time
      /\ v = VersionOf(j, kn, e) => found \subseteq {"audit_version_out_of_order"}
  BY <1>1, <1>6, <1>7, <1>8
<1> QED
  BY <1>9 DEF found, events

(* Candidates and diagnoses of a sound database that were read together fit.      *)
LEMMA SourcesFit ==
  ASSUME NEW j \in [Diagnosis -> Seq(Entry)], NEW s, NEW kn, NEW tr, Sound(j, s, kn, tr)
  PROVE  SourceFindings(j, s, kn) = {}
<1>1. ASSUME NEW id \in Knowledge, kn[id] # None, kn[id].source \in Diagnosis
      PROVE  /\ s[kn[id].source] = "confirmed"
             /\ ConclusionOf(j[kn[id].source]) = kn[id].conclusion
             /\ ~(Len(j[kn[id].source]) < kn[id].conclusion)
  <2> DEFINE d == kn[id].source
  <2>1. s[d] = "confirmed" /\ kn[id].conclusion = Len(j[d]) - 1
    BY <1>1 DEF Sound, Governed, Rightful
  <2>2. j[d] \in Seq(Entry) /\ Len(j[d]) \in Nat
    BY <1>1, LenProperties
  <2>3. j[d] # <<>> /\ Last(j[d]).left = "confirmed" /\ ConfirmedAsOffered(j[d])
    BY <1>1, <2>1 DEF Sound, Lasting
  <2>4. ConclusionOf(j[d]) = Len(j[d]) - 1
    BY <2>2, <2>3, ConclusionConfirmed
  <2> QED
    BY <2>1, <2>2, <2>4
<1>2. ASSUME NEW id \in Knowledge PROVE CandidateFindings(kn[id], j, s) = {}
  BY <1>1 DEF CandidateFindings
<1> QED
  BY <1>2 DEF SourceFindings

(* What the scan reports on after its third read.                                *)
LEMMA ReportsOn ==
  ASSUME TypeOK, Reports
  PROVE  Found = Findings(scan.seen["cases"].journal, scan.seen["cases"].status,
                          scan.seen["knowledge"], trail)
<1>1. scan.at = 3 /\ scan \in Scan
  BY DEF Reports, TypeOK
<1>2. DOMAIN scan.seen = {"cases", "knowledge"}
  BY <1>1 DEF Scan
<1>3. Seen = [p \in {"cases", "knowledge", "audit"} |->
                IF p = "audit" THEN trail ELSE scan.seen[p]]
  BY <1>1, <1>2, Reads DEF Seen
<1>4. /\ Seen["cases"] = scan.seen["cases"] /\ Seen["knowledge"] = scan.seen["knowledge"]
      /\ Seen["audit"] = trail
  BY <1>3
<1> QED
  BY <1>4 DEF Found

LEMMA ScanBlames ==
  ASSUME IInv, Reports, ~overtaken, scan.file = file
  PROVE  /\ scan.quiet => Found \subseteq {"audit_version_out_of_order"}
         /\ "audit_version_out_of_order" \in Found => clock < MaxDisturbances
         /\ Found \cap {"duplicate_audit_version", "audit_version_gap"} = {}
<1> DEFINE j == scan.seen["cases"].journal
           s == scan.seen["cases"].status
           kn == scan.seen["knowledge"]
           V(e) == VersionOf(journal, knowledge, e)
           Trail(e) == TrailFindings(VersionOf(j, kn, e), EventsFor(trail, e))
<1>1. TypeOK /\ AllDated /\ Sound(journal, status, knowledge, trail) /\ ScanBehind
  BY DEF IInv, StoreSound
<1>2. scan # NoScan /\ scan.at = 3
  BY DEF Reports
<1>3. j \in [Diagnosis -> Seq(Entry)] /\ kn \in Candidates
  BY <1>1, <1>2, ScanCases
<1>4. Found = SourceFindings(j, s, kn) \cup UNION {Trail(e) : e \in Entity}
  BY <1>1, ReportsOn DEF Findings, Entity, EventsFor
<1>5. SourceFindings(j, s, kn) \cap {"audit_version_out_of_order", "duplicate_audit_version", "audit_version_gap"} = {}
  BY DEF SourceFindings, CandidateFindings
<1>6. ASSUME NEW e \in Entity
      PROVE  /\ VersionOf(j, kn, e) \in Nat /\ V(e) \in Nat /\ VersionOf(j, kn, e) <= V(e)
  <2>1. VersionOf(j, kn, e) \in Nat
    BY <1>3, VersionType
  <2>2. V(e) \in Nat
    BY <1>1, VersionType DEF TypeOK
  <2>3. VersionOf(j, kn, e) <= V(e)
    <3>1. CASE e \in Diagnosis
      BY <1>1, <1>2, <3>1 DEF ScanBehind, VersionOf
    <3>2. CASE e \in Knowledge
      <4>1. /\ VersionOf(j, kn, e) = IF kn[e] = None THEN 0 ELSE kn[e].version
            /\ V(e) = IF knowledge[e] = None THEN 0 ELSE knowledge[e].version
        BY <3>2, KnowledgeVersion
      <4>2. kn[e] # None => knowledge[e] # None /\ kn[e].version <= knowledge[e].version
        BY <1>1, <1>2, <3>2 DEF ScanBehind
      <4> HIDE DEF kn, j
      <4> QED
        BY <2>1, <2>2, <4>1, <4>2
    <3> QED
      BY <3>1, <3>2 DEF Entity
  <2> QED
    BY <2>1, <2>2, <2>3
<1>7. ASSUME NEW e \in Entity
      PROVE  /\ Trail(e) \cap {"duplicate_audit_version", "audit_version_gap"} = {}
             /\ "audit_version_out_of_order" \in Trail(e) => \E x, y \in trail : x.time > y.time
             /\ VersionOf(j, kn, e) = V(e) => Trail(e) \subseteq {"audit_version_out_of_order"}
  <2>1. OneEventPerVersion(journal, knowledge, trail)
    BY <1>1 DEF Sound
  <2> HIDE DEF j, kn
  <2> QED
    BY <1>6, <2>1, TrailBlames
<1>8. ASSUME "audit_version_out_of_order" \in Found PROVE clock < MaxDisturbances
  <2>1. PICK x, y \in trail : x.time > y.time
    BY <1>4, <1>5, <1>7, <1>8
  <2>2. /\ clock <= y.time /\ x.time <= MaxDisturbances
        /\ x.time \in Nat /\ y.time \in Nat /\ clock \in Nat /\ MaxDisturbances \in Nat
    BY <1>1, Bounds DEF AllDated, Dated, TypeOK, AuditEvent
  <2> QED
    BY <2>1, <2>2
<1>9. ASSUME scan.quiet PROVE Found \subseteq {"audit_version_out_of_order"}
  <2>1. scan.seen["cases"] = [journal |-> journal, status |-> status] /\ kn = knowledge
    BY <1>1, <1>2, <1>9 DEF ScanBehind
  <2>2. j = journal /\ s = status
    BY <2>1
  <2>3. SourceFindings(journal, status, knowledge) = {}
    BY <1>1, SourcesFit DEF TypeOK
  <2> HIDE DEF j, s, kn
  <2> QED
    BY <1>4, <1>7, <2>1, <2>2, <2>3
<1>10. Found \cap {"duplicate_audit_version", "audit_version_gap"} = {}
  BY <1>4, <1>5, <1>7
<1> QED
  BY <1>8, <1>9, <1>10

(* The scan reads diagnoses, candidates and events one after the other, and the    *)
(* events last (consistency.py): beside whatever is written meanwhile it takes no   *)
(* sound database for a damaged one, and undisturbed it blames only the clock.     *)
THEOREM ScansAreFair == Spec => ScansBlameOnlyDamage
<1>1. IInv /\ [Next]_vars =>
        [ScanRead /\ Reports /\ ~overtaken /\ scan.file = file =>
            /\ scan.quiet => Found \subseteq {"audit_version_out_of_order"}
            /\ "audit_version_out_of_order" \in Found => clock < MaxDisturbances
            /\ Found \cap {"duplicate_audit_version", "audit_version_gap"} = {}]_vars
  BY ScanBlames
<1> QED
  BY <1>1, Invariant, PTL DEF Spec, ScansBlameOnlyDamage
==============================================================================
