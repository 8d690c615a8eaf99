------------------------- MODULE DatasetReleaseProofs -------------------------
(* Proofs about DatasetRelease, for any versions, base, proposed additions and   *)
(* publishers, and any number of publications, crashes and edits.                *)
EXTENDS DatasetRelease, FiniteSetTheorems, TLAPS

------------------------------------------------------------------------------
(* Cases from version to version. *)

\* The last version given to a case counts.
LEMMA VersionOnce ==
  ASSUME NEW c, NEW v, NEW w
  PROVE  [[c EXCEPT !.version = v] EXCEPT !.version = w] = [c EXCEPT !.version = w]
<1> DEFINE d == [c EXCEPT !.version = v]
<1>1. /\ d = [field \in DOMAIN c |-> IF field = "version" THEN v ELSE c[field]]
      /\ DOMAIN d = DOMAIN c
  OBVIOUS
<1>2. [d EXCEPT !.version = w] =
        [field \in DOMAIN d |-> IF field = "version" THEN w ELSE d[field]]
  OBVIOUS
<1>3. [c EXCEPT !.version = w] =
        [field \in DOMAIN c |-> IF field = "version" THEN w ELSE c[field]]
  OBVIOUS
<1> QED
  BY <1>1, <1>2, <1>3

\* A case keeps everything but its version.
LEMMA CaseInVersion ==
  ASSUME NEW c, IsCase(c), NEW v
  PROVE  LET d == [c EXCEPT !.version = v]
         IN  /\ IsCase(d)
             /\ d.version = v /\ d.id = c.id /\ d.split = c.split /\ d.label = c.label
             /\ [c EXCEPT !.version = c.version] = c
<1> DEFINE d == [c EXCEPT !.version = v]
<1>1. /\ d = [field \in DOMAIN c |-> IF field = "version" THEN v ELSE c[field]]
      /\ DOMAIN d = DOMAIN c
  OBVIOUS
<1>2. /\ d.version = v /\ d.id = c.id /\ d.split = c.split /\ d.label = c.label
  BY <1>1 DEF IsCase
<1>3. IsCase(d)
  <2>1. d = [field \in DOMAIN d |-> d[field]]
    BY <1>1
  <2> QED
    BY <1>1, <1>2, <2>1 DEF IsCase
<1>4. [c EXCEPT !.version = c.version] = c
  <2>1. [c EXCEPT !.version = c.version] = [field \in DOMAIN c |-> c[field]]
    OBVIOUS
  <2> QED
    BY <2>1 DEF IsCase
<1> QED
  BY <1>2, <1>3, <1>4

\* Three persons stand behind an addition that was accepted.
LEMMA AdditionIsGoverned ==
  ASSUME NEW target, NEW x \in UNION Batches, IsCase(x.case), ValidAddition(x, target)
  PROVE  Governed(x.case)
<1> DEFINE a == x.first.reviewer
           b == x.second.reviewer
           c == x.decision.adjudicator
<1>1. /\ a # b /\ c \notin {a, b}
      /\ x.decision.action = "approve" /\ x.decision.label = x.case.label
  BY DEF ValidAddition, Decidable, ComparableAnnotations
<1>2. Cardinality({a, b, c}) = 3
  <2>1. IsFiniteSet({a}) /\ Cardinality({a}) = 1
    BY FS_Singleton
  <2> HIDE DEF a, b, c
  <2>2. IsFiniteSet({a} \cup {b}) /\ Cardinality({a} \cup {b}) = 2
    <3>1. b \notin {a}
      BY <1>1
    <3>2. /\ IsFiniteSet({a} \cup {b})
          /\ Cardinality({a} \cup {b}) = IF b \in {a} THEN Cardinality({a}) ELSE Cardinality({a}) + 1
      BY <2>1, FS_AddElement
    <3> QED
      BY <2>1, <3>1, <3>2
  <2>3. Cardinality(({a} \cup {b}) \cup {c}) = 3
    <3> DEFINE two == {a} \cup {b}
    <3>1. c \notin two
      BY <1>1
    <3> HIDE DEF two
    <3>2. Cardinality(two \cup {c}) = IF c \in two THEN Cardinality(two) ELSE Cardinality(two) + 1
      BY <2>2, FS_AddElement DEF two
    <3>3. Cardinality(two) = 2
      BY <2>2 DEF two
    <3>4. Cardinality(two \cup {c}) = 3
      BY <3>1, <3>2, <3>3
    <3> QED
      BY <3>4 DEF two
  <2>4. ({a} \cup {b}) \cup {c} = {a, b, c}
    OBVIOUS
  <2> QED
    BY <2>3, <2>4
<1>3. [x.case EXCEPT !.version = x.case.version] = x.case
  BY CaseInVersion
<1> QED
  BY <1>1, <1>2, <1>3 DEF Governed

------------------------------------------------------------------------------
(* What may be attested for a version: the base, or cases that are of the base   *)
(* or governed.                                                                  *)
Rightful(v, cases) ==
    /\ \A c \in cases : IsCase(c)
    /\ (v = Base /\ cases = BaseCases)
       \/ \A c \in cases : c \in InVersion(BaseCases, v) \/ Governed(c)

\* What is taken over from a rightful version is rightful.
LEMMA InheritedIsRightful ==
  ASSUME NEW s, NEW v, NEW cases, Rightful(s, cases)
  PROVE  /\ \A c \in InVersion(cases, v) : c \in InVersion(BaseCases, v) \/ Governed(c)
         /\ \A c \in InVersion(cases, v) : IsCase(c)
<1> SUFFICES ASSUME NEW o \in cases
             PROVE  LET c == [o EXCEPT !.version = v]
                    IN  IsCase(c) /\ (c \in InVersion(BaseCases, v) \/ Governed(c))
  BY DEF InVersion
<1> DEFINE c == [o EXCEPT !.version = v]
<1>1. IsCase(o)
  BY DEF Rightful
<1>2. IsCase(c) /\ c.version = v /\ c.label = o.label
  BY <1>1, CaseInVersion
<1>3. CASE o \in BaseCases
  BY <1>2, <1>3 DEF InVersion
<1>4. CASE o \in InVersion(BaseCases, s)
  <2>1. PICK b \in BaseCases : o = [b EXCEPT !.version = s]
    BY <1>4 DEF InVersion
  <2>2. c = [b EXCEPT !.version = v]
    BY <2>1, VersionOnce
  <2> QED
    BY <1>2, <2>2 DEF InVersion
<1>5. CASE Governed(o)
  <2>1. PICK x \in UNION Batches :
          /\ [x.case EXCEPT !.version = o.version] = o
          /\ Cardinality({x.first.reviewer, x.second.reviewer, x.decision.adjudicator}) = 3
          /\ x.decision.action = "approve" /\ x.decision.label = o.label
    BY <1>5 DEF Governed
  <2>2. c = [x.case EXCEPT !.version = v]
    <3> DEFINE d == [x.case EXCEPT !.version = o.version]
    <3>1. IsCase(x.case)
      BY CasesInOrder
    <3>2. [d EXCEPT !.version = v] = [x.case EXCEPT !.version = v]
      BY VersionOnce
    <3>3. d = o
      BY <2>1
    <3> HIDE DEF d
    <3> QED
      BY <3>2, <3>3
  <2>3. Governed(c)
    BY <1>2, <2>1, <2>2 DEF Governed
  <2> QED
    BY <1>2, <2>3
<1> QED
  BY <1>3, <1>4, <1>5 DEF Rightful

\* A directory that verifies holds what its source has and what was added, and
\* nothing else: a case that stands where one of the source stands is that one.
LEMMA NothingElse ==
  ASSUME NEW v, NEW dir, NEW s, NEW sourceDir, NEW adds,
         \A c \in dir.cases : IsCase(c),
         \A c \in sourceDir.cases : IsCase(c),
         {x.case : x \in adds} \subseteq dir.cases,
         dir.receipt.additions =
            {[id |-> x.case.id, split |-> x.case.split, kind |-> x.provenance.kind,
              record |-> x.case.record] : x \in adds},
         Verifies(v, dir, s, sourceDir)
  PROVE  dir.cases \subseteq InVersion(sourceDir.cases, v) \cup {x.case : x \in adds}
<1> SUFFICES ASSUME NEW c \in dir.cases
             PROVE  c \in InVersion(sourceDir.cases, v) \cup {x.case : x \in adds}
  OBVIOUS
<1>1. \A d \in dir.cases : d.id = c.id /\ d.split = c.split => d = c
  <2>1. c.split \in Splits
    BY DEF IsCase
  <2> QED
    BY <2>1 DEF Verifies, Loads, Split
<1>2. CASE \E o \in sourceDir.cases : o.id = c.id /\ o.split = c.split
  <2>1. PICK o \in sourceDir.cases : o.id = c.id /\ o.split = c.split
    BY <1>2
  <2> DEFINE d == [o EXCEPT !.version = v]
  <2>2. d \in InVersion(sourceDir.cases, v) /\ d \in dir.cases
    BY DEF InVersion, Verifies, Inherits
  <2>3. d.id = o.id /\ d.split = o.split
    BY CaseInVersion
  <2> QED
    BY <1>1, <2>1, <2>2, <2>3
<1>3. CASE \A o \in sourceDir.cases : o.id # c.id \/ o.split # c.split
  <2> DEFINE added == {d \in dir.cases : \A o \in sourceDir.cases : o.id # d.id \/ o.split # d.split}
  <2>a. c \in added
    BY <1>3
  <2>b. {<<d.split, d.id>> : d \in added} = {<<r.split, r.id>> : r \in dir.receipt.additions}
    BY DEF Verifies, DeclaresAdditions
  <2>c. <<c.split, c.id>> \in {<<d.split, d.id>> : d \in added}
    BY <2>a
  <2> HIDE DEF added
  <2>d. <<c.split, c.id>> \in {<<r.split, r.id>> : r \in dir.receipt.additions}
    BY <2>b, <2>c
  <2>1. \E r \in dir.receipt.additions : <<r.split, r.id>> = <<c.split, c.id>>
    BY <2>d
  <2>2. PICK x \in adds : x.case.split = c.split /\ x.case.id = c.id
    BY <2>1
  <2> QED
    BY <1>1, <2>2
<1> QED
  BY <1>2, <1>3

------------------------------------------------------------------------------
(* The inductive invariant. *)

Fields == {"cases", "manifest", "anchor", "receipt"}
Places == {"idle", "attest", "verify", "rename"}

(* Versions have directories, publishers have what they work on. *)
Shapes ==
    /\ DOMAIN disk = Version /\ DOMAIN tags = Version
    /\ DOMAIN pc = Publisher /\ DOMAIN local = Publisher /\ DOMAIN answer = Publisher
    /\ \A v \in Version : disk[v] # None => DOMAIN disk[v] = Fields
    /\ \A p \in Publisher :
         /\ pc[p] \in Places
         /\ DOMAIN local[p] = {"source", "target", "adds", "cases", "dir"}

(* What was signed for a version, what its receipt lists and what is there to be  *)
(* signed is rightful; edits reach neither tag nor receipt.                       *)
Issued(v) ==
    /\ tags[v] # None => Rightful(v, tags[v].manifest)
    /\ disk[v] # None =>
        /\ \A c \in disk[v].cases : IsCase(c)
        /\ v \notin edited => Rightful(v, disk[v].manifest)
        /\ v # Base => Rightful(v, disk[v].receipt.manifest)

(* What a publisher has in hand: the cases it put together before it looked for  *)
(* the tag, and from then on a directory with a rightful source.                 *)
Prepared(p) ==
    LET l == local[p] IN
    /\ pc[p] # "idle" =>
         /\ l.source \in Version /\ l.target \in Version /\ l.adds \in Batches
         /\ \A x \in l.adds : ValidAddition(x, l.target)
         /\ \A c \in l.cases : IsCase(c)
         /\ {x.case : x \in l.adds} \subseteq l.cases
    /\ pc[p] = "attest" =>
         tags[l.source] # None /\ Rightful(l.source, tags[l.source].manifest)
    /\ pc[p] = "verify" =>
         \E tag : /\ Rightful(l.source, tag.manifest)
                  /\ l.dir = Directory(Receipt(l.source, tag, l.target, l.cases, l.adds), l.cases)
    /\ pc[p] = "rename" =>
         /\ l.dir # None /\ DOMAIN l.dir = Fields
         /\ \A c \in l.dir.cases : IsCase(c)
         /\ Rightful(l.target, l.dir.manifest)
         /\ Rightful(l.target, l.dir.receipt.manifest)

(* What a publisher was told is still so. *)
Told(p) ==
    answer[p].kind = "published" =>
        /\ answer[p].version \in Version /\ answer[p].dir # None
        /\ answer[p].version \notin edited => disk[answer[p].version] = answer[p].dir

IInv ==
    /\ Shapes
    /\ \A v \in Version : Issued(v)
    /\ \A p \in Publisher : Prepared(p) /\ Told(p)

------------------------------------------------------------------------------
LEMMA InvInit ==
  ASSUME Init
  PROVE  IInv
<1>1. Shapes
  BY DEF Init, Shapes, BaseDirectory, Directory, Fields, Places, Idle
<1>2. ASSUME NEW v \in Version PROVE Issued(v)
  <2>1. CASE v = Base
    BY <2>1, CasesInOrder DEF Init, Issued, BaseDirectory, Directory, Attestation, Rightful
  <2>2. CASE v # Base
    BY <2>2 DEF Init, Issued
  <2> QED
    BY <2>1, <2>2
<1>3. ASSUME NEW p \in Publisher PROVE Prepared(p) /\ Told(p)
  BY DEF Init, Prepared, Told, NoAnswer
<1> QED
  BY <1>1, <1>2, <1>3 DEF IInv

\* A request that ends leaves what it was told, and nothing in hand.
LEMMA InvEnd ==
  ASSUME IInv, NEW p \in Publisher, NEW a, End(p, a), UNCHANGED <<disk, tags, edited>>,
         a.kind # "published"
  PROVE  IInv'
<1>1. Shapes'
  BY DEF IInv, Shapes, End, Goto, Idle, Places
<1>2. ASSUME NEW v \in Version PROVE Issued(v)'
  BY DEF IInv, Issued
<1>3. ASSUME NEW q \in Publisher PROVE Prepared(q)' /\ Told(q)'
  <2>1. CASE q = p
    BY <2>1 DEF IInv, Shapes, End, Goto, Prepared, Told
  <2>2. CASE q # p
    BY <2>2 DEF IInv, Shapes, End, Goto, Prepared, Told
  <2> QED
    BY <2>1, <2>2
<1> QED
  BY <1>1, <1>2, <1>3 DEF IInv

\* What is put together is cases: those of the source, and the additions.
LEMMA InvBegin ==
  ASSUME IInv, NEW p \in Publisher,
         NEW source \in Version, NEW target \in Version, NEW adds \in Batches,
         Begin(p, source, target, adds)
  PROVE  IInv'
<1> DEFINE cases == InVersion(disk[source].cases, target) \cup {x.case : x \in adds}
           l == [source |-> source, target |-> target, adds |-> adds, cases |-> cases,
                 dir |-> None]
<1>0. /\ pc' = [pc EXCEPT ![p] = "attest"] /\ local' = [local EXCEPT ![p] = l]
      /\ answer' = [answer EXCEPT ![p] = NoAnswer]
      /\ disk' = disk /\ tags' = tags /\ edited' = edited
      /\ Loads(source, disk[source]) /\ \A x \in adds : ValidAddition(x, target)
      /\ tags[source] # None
  BY DEF Begin, Goto
<1>1. Shapes'
  BY <1>0 DEF IInv, Shapes, Places
<1>2. ASSUME NEW v \in Version PROVE Issued(v)'
  BY <1>0 DEF IInv, Issued
<1>3. disk[source] # None /\ Issued(source)
  BY <1>0 DEF Loads, IInv
<1>4. \A c \in cases : IsCase(c)
  <2>1. ASSUME NEW c \in InVersion(disk[source].cases, target) PROVE IsCase(c)
    <3>1. PICK o \in disk[source].cases : c = [o EXCEPT !.version = target]
      BY <2>1 DEF InVersion
    <3> QED
      BY <1>3, <3>1, CaseInVersion DEF Issued
  <2>2. ASSUME NEW x \in adds PROVE IsCase(x.case)
    BY <2>2, CasesInOrder
  <2> QED
    BY <2>1, <2>2
<1>5. ASSUME NEW q \in Publisher PROVE Prepared(q)' /\ Told(q)'
  <2>1. CASE q = p
    <3>1. local'[p] = l /\ pc'[p] = "attest" /\ answer'[p] = NoAnswer
      BY <1>0 DEF IInv, Shapes
    <3>2. tags[source] # None /\ Rightful(source, tags[source].manifest)
      BY <1>0, <1>3 DEF Issued
    <3>3. Prepared(p)'
      BY <1>0, <1>4, <3>1, <3>2 DEF Prepared
    <3> QED
      BY <2>1, <3>1, <3>3 DEF Told, NoAnswer
  <2>2. CASE q # p
    BY <1>0, <2>2 DEF IInv, Shapes, Prepared, Told
  <2> QED
    BY <2>1, <2>2
<1> QED
  BY <1>1, <1>2, <1>5 DEF IInv

\* The tag is one that was issued for the source, though it may be read long
\* after the cases were.
LEMMA InvAttest ==
  ASSUME IInv, NEW p \in Publisher, Attest(p)
  PROVE  IInv'
<1> DEFINE l == local[p]
           tag == tags[l.source]
           dir == Directory(Receipt(l.source, tag, l.target, l.cases, l.adds), l.cases)
<1>0. pc[p] = "attest" /\ disk' = disk /\ tags' = tags /\ edited' = edited
  BY DEF Attest
<1>1. CASE Refuse(p)
  BY <1>0, <1>1, InvEnd DEF Refuse
<1>2. CASE /\ local' = [local EXCEPT ![p].dir = dir]
           /\ pc' = [pc EXCEPT ![p] = "verify"] /\ answer' = answer
  <2>1. Shapes'
    BY <1>0, <1>2 DEF IInv, Shapes, Places
  <2>2. ASSUME NEW v \in Version PROVE Issued(v)'
    BY <1>0 DEF IInv, Issued
  <2>3. ASSUME NEW q \in Publisher PROVE Prepared(q)' /\ Told(q)'
    <3>1. CASE q = p
      <4>1. /\ pc'[p] = "verify" /\ local'[p].dir = dir
            /\ local'[p].source = l.source /\ local'[p].target = l.target
            /\ local'[p].adds = l.adds /\ local'[p].cases = l.cases
        BY <1>2 DEF IInv, Shapes
      <4>2. Prepared(p) /\ Told(p)
        BY DEF IInv
      <4>3. Rightful(l.source, tag.manifest)
        BY <1>0, <4>2 DEF Prepared
      <4>4. Prepared(p)'
        <5> HIDE DEF l
        <5> QED
          BY <1>0, <4>1, <4>2, <4>3 DEF Prepared, l
      <4> QED
        BY <1>0, <1>2, <3>1, <4>2, <4>4 DEF Told
    <3>2. CASE q # p
      BY <1>0, <1>2, <3>2 DEF IInv, Shapes, Prepared, Told
    <3> QED
      BY <3>1, <3>2
  <2> QED
    BY <2>1, <2>2, <2>3 DEF IInv
<1> QED
  BY <1>1, <1>2 DEF Attest, Goto

\* Verification ties the directory to a source that is what its tag says: what
\* was read before the tag, and may have been edited then, is held to it here.
LEMMA InvVerify ==
  ASSUME IInv, NEW p \in Publisher, Verify(p)
  PROVE  IInv'
<1> DEFINE l == local[p]
           sourceDir == disk[l.source]
<1>0. pc[p] = "verify" /\ disk' = disk /\ tags' = tags /\ edited' = edited
  BY DEF Verify
<1>1. CASE Refuse(p)
  BY <1>0, <1>1, InvEnd DEF Refuse
<1>2. CASE /\ Verifies(l.target, l.dir, l.source, sourceDir)
           /\ pc' = [pc EXCEPT ![p] = "rename"] /\ local' = local /\ answer' = answer
  <2>1. Shapes'
    BY <1>0, <1>2 DEF IInv, Shapes, Places
  <2>2. ASSUME NEW v \in Version PROVE Issued(v)'
    BY <1>0 DEF IInv, Issued
  <2>3. ASSUME NEW q \in Publisher PROVE Prepared(q)' /\ Told(q)'
    <3>1. CASE q = p
      <4>1. Prepared(p) /\ Told(p) /\ pc'[p] = "rename"
        BY <1>2 DEF IInv, Shapes
      <4>2. PICK tag :
              /\ Rightful(l.source, tag.manifest)
              /\ l.dir = Directory(Receipt(l.source, tag, l.target, l.cases, l.adds), l.cases)
        BY <1>0, <4>1 DEF Prepared
      <4>3. /\ DOMAIN l.dir = Fields /\ l.dir.cases = l.cases /\ l.dir.manifest = l.cases
            /\ l.dir.receipt.manifest = l.cases /\ l.dir.receipt.attested = tag
            /\ l.dir.receipt.additions =
                 {[id |-> x.case.id, split |-> x.case.split, kind |-> x.provenance.kind,
                   record |-> x.case.record] : x \in l.adds}
        BY <4>2 DEF Directory, Receipt, Fields
      <4>4. /\ l.source \in Version /\ l.adds \in Batches
            /\ \A x \in l.adds : ValidAddition(x, l.target)
            /\ \A c \in l.cases : IsCase(c)
            /\ {x.case : x \in l.adds} \subseteq l.cases
        BY <1>0, <4>1 DEF Prepared
      <4>5. l.dir # None /\ sourceDir.cases = tag.manifest
        <5>1. /\ Loads(l.target, l.dir) /\ Loads(l.source, sourceDir)
              /\ l.dir.receipt.attested = Attestation(l.source, sourceDir.manifest)
          BY <1>2 DEF Verifies
        <5>2. sourceDir.manifest = sourceDir.cases /\ l.dir # None
          BY <5>1 DEF Loads
        <5> QED
          BY <4>3, <5>1, <5>2 DEF Attestation
      <4>6. Rightful(l.source, sourceDir.cases)
        BY <4>2, <4>5
      <4>7. l.cases \subseteq InVersion(sourceDir.cases, l.target) \cup {x.case : x \in l.adds}
        <5>1. \A c \in sourceDir.cases : IsCase(c)
          BY <4>6 DEF Rightful
        <5> HIDE DEF l, sourceDir
        <5> QED
          BY <1>2, <4>3, <4>4, <5>1, NothingElse
      <4>8. Rightful(l.target, l.cases)
        <5>1. ASSUME NEW c \in InVersion(sourceDir.cases, l.target)
              PROVE  c \in InVersion(BaseCases, l.target) \/ Governed(c)
          BY <4>6, <5>1, InheritedIsRightful
        <5>2. ASSUME NEW x \in l.adds PROVE Governed(x.case)
          <6>1. x \in UNION Batches
            BY <4>4
          <6> QED
            BY <4>4, <6>1, AdditionIsGoverned, CasesInOrder
        <5> HIDE DEF l, sourceDir
        <5> QED
          BY <4>4, <4>7, <5>1, <5>2 DEF Rightful
      <4>9. Prepared(p)'
        <5> HIDE DEF sourceDir
        <5> QED
          BY <1>0, <1>2, <4>1, <4>3, <4>4, <4>5, <4>8 DEF Prepared
      <4> QED
        BY <1>0, <1>2, <3>1, <4>1, <4>9 DEF Told
    <3>2. CASE q # p
      BY <1>0, <1>2, <3>2 DEF IInv, Shapes, Prepared, Told
    <3> QED
      BY <3>1, <3>2
  <2> QED
    BY <2>1, <2>2, <2>3 DEF IInv
<1> QED
  BY <1>1, <1>2 DEF Verify, Goto

\* Who finds the name free takes it; a tag may be signed for it later.
LEMMA InvRename ==
  ASSUME IInv, NEW p \in Publisher, Rename(p)
  PROVE  IInv'
<1> DEFINE l == local[p]
           a == [kind |-> "published", version |-> l.target, dir |-> l.dir]
<1>0. pc[p] = "rename" /\ edited' = edited /\ tags' = tags
  BY DEF Rename
<1>1. CASE Refuse(p) /\ UNCHANGED disk
  BY <1>0, <1>1, InvEnd DEF Refuse
<1>2. CASE /\ disk[l.target] = None
           /\ disk' = [disk EXCEPT ![l.target] = l.dir]
           /\ End(p, a)
  <2>0. /\ pc' = [pc EXCEPT ![p] = "idle"] /\ local' = [local EXCEPT ![p] = Idle]
        /\ answer' = [answer EXCEPT ![p] = a]
    BY <1>2 DEF End, Goto
  <2>1. /\ l.target \in Version /\ l.dir # None /\ DOMAIN l.dir = Fields
        /\ \A c \in l.dir.cases : IsCase(c)
        /\ Rightful(l.target, l.dir.manifest)
        /\ Rightful(l.target, l.dir.receipt.manifest)
    BY <1>0 DEF IInv, Prepared
  <2>2. /\ disk'[l.target] = l.dir /\ DOMAIN disk' = Version
        /\ \A v \in Version \ {l.target} : disk'[v] = disk[v]
    BY <1>2, <2>1 DEF IInv, Shapes
  <2>3. Shapes'
    BY <1>0, <2>0, <2>1, <2>2 DEF IInv, Shapes, Idle, Places
  <2>4. ASSUME NEW v \in Version PROVE Issued(v)'
    <3>1. CASE v = l.target
      BY <1>0, <2>1, <2>2, <3>1 DEF IInv, Issued
    <3>2. CASE v # l.target
      BY <1>0, <2>2, <3>2 DEF IInv, Issued
    <3> QED
      BY <3>1, <3>2
  <2>5. ASSUME NEW q \in Publisher PROVE Prepared(q)'
    <3>1. CASE q = p
      BY <2>0, <3>1 DEF IInv, Shapes, Prepared
    <3>2. CASE q # p
      BY <1>0, <2>0, <3>2 DEF IInv, Shapes, Prepared
    <3> QED
      BY <3>1, <3>2
  <2>6. ASSUME NEW q \in Publisher PROVE Told(q)'
    <3>1. CASE q = p
      <4>1. answer'[p] = a
        BY <2>0 DEF IInv, Shapes
      <4> QED
        BY <2>1, <2>2, <3>1, <4>1 DEF Told
    <3>2. CASE q # p
      <4>1. answer'[q] = answer[q] /\ Told(q)
        BY <2>0, <3>2 DEF IInv, Shapes
      <4>2. ASSUME answer[q].kind = "published", answer[q].version \notin edited
            PROVE  disk'[answer[q].version] = answer[q].dir
        <5>1. /\ answer[q].version \in Version /\ answer[q].dir # None
              /\ disk[answer[q].version] = answer[q].dir
          BY <4>1, <4>2 DEF Told
        <5>2. answer[q].version # l.target
          BY <1>2, <5>1
        <5> QED
          BY <2>2, <5>1, <5>2
      <4> QED
        BY <1>0, <4>1, <4>2 DEF Told
    <3> QED
      BY <3>1, <3>2
  <2> QED
    BY <2>3, <2>4, <2>5, <2>6 DEF IInv
<1> QED
  BY <1>1, <1>2 DEF Rename

\* What is signed is what was published, and a publisher that has a tag keeps it.
LEMMA InvSign ==
  ASSUME IInv, NEW v \in Version, Sign(v)
  PROVE  IInv'
<1> DEFINE tag == Attestation(v, disk[v].manifest)
<1>0. /\ disk[v] # None /\ tags[v] = None /\ v \notin edited
      /\ tags' = [tags EXCEPT ![v] = tag]
      /\ disk' = disk /\ edited' = edited /\ pc' = pc /\ local' = local /\ answer' = answer
  BY DEF Sign
<1>1. tag.manifest = disk[v].manifest
  BY DEF Attestation
<1> HIDE DEF tag
<1>2. /\ DOMAIN tags' = Version /\ tags'[v] = tag
      /\ \A w \in Version \ {v} : tags'[w] = tags[w]
  BY <1>0 DEF IInv, Shapes
<1>3. Shapes'
  BY <1>0, <1>2 DEF IInv, Shapes
<1>4. ASSUME NEW w \in Version PROVE Issued(w)'
  <2>1. CASE w = v
    BY <1>0, <1>1, <1>2, <2>1 DEF IInv, Issued
  <2>2. CASE w # v
    BY <1>0, <1>2, <2>2 DEF IInv, Issued
  <2> QED
    BY <2>1, <2>2
<1>5. ASSUME NEW p \in Publisher PROVE Prepared(p)' /\ Told(p)'
  <2>1. ASSUME pc[p] = "attest"
        PROVE  local[p].source \in Version \ {v}
    BY <1>0, <2>1 DEF IInv, Prepared
  <2>2. Prepared(p)'
    BY <1>0, <1>2, <2>1 DEF IInv, Prepared
  <2>3. Told(p)'
    BY <1>0 DEF IInv, Told
  <2> QED
    BY <2>2, <2>3
<1> QED
  BY <1>3, <1>4, <1>5 DEF IInv

\* An edit reaches the cases and their lines in the manifest, not the receipt and
\* not the tag.
LEMMA InvEdit ==
  ASSUME IInv, NEW v \in Version, Edit(v)
  PROVE  IInv'
<1>0. /\ disk[v] # None /\ DOMAIN disk = Version /\ DOMAIN disk[v] = Fields
      /\ edited' = edited \cup {v} /\ tags' = tags
      /\ pc' = pc /\ local' = local /\ answer' = answer
  BY DEF Edit, IInv, Shapes
<1>1. PICK c \in disk[v].cases : \E label \in (Labels[c.fault] \ {c.label}) \cup {None} :
        LET rest == disk[v].cases \ {c}
            new  == IF label = None THEN rest ELSE rest \cup {[c EXCEPT !.label = label]}
        IN  \E manifest \in {disk[v].manifest, new} :
               disk' = [disk EXCEPT ![v].cases = new, ![v].manifest = manifest]
  BY DEF Edit
<1>1a. PICK label :
        LET rest == disk[v].cases \ {c}
            new  == IF label = None THEN rest ELSE rest \cup {[c EXCEPT !.label = label]}
        IN  \E manifest \in {disk[v].manifest, new} :
               disk' = [disk EXCEPT ![v].cases = new, ![v].manifest = manifest]
  BY <1>1
<1> DEFINE rest == disk[v].cases \ {c}
           new  == IF label = None THEN rest ELSE rest \cup {[c EXCEPT !.label = label]}
<1>2. \A d \in disk[v].cases : IsCase(d)
  BY <1>0 DEF IInv, Issued
<1>3. \A d \in new : IsCase(d)
  <2> DEFINE d == [c EXCEPT !.label = label]
  <2>1. /\ DOMAIN d = DOMAIN c /\ d.split = c.split
        /\ d = [field \in DOMAIN c |-> IF field = "label" THEN label ELSE c[field]]
    BY <1>2 DEF IsCase
  <2>2. d = [field \in DOMAIN d |-> d[field]]
    BY <2>1
  <2>3. IsCase(d)
    BY <1>2, <2>1, <2>2 DEF IsCase
  <2> HIDE DEF d
  <2> QED
    BY <1>2, <2>3 DEF d
<1> HIDE DEF new
<1>4. PICK manifest : disk' = [disk EXCEPT ![v].cases = new, ![v].manifest = manifest]
  BY <1>1a DEF new
<1>5. /\ DOMAIN disk' = Version /\ DOMAIN disk'[v] = Fields
      /\ disk'[v].cases = new /\ disk'[v].receipt = disk[v].receipt
      /\ \A w \in Version \ {v} : disk'[w] = disk[w]
  BY <1>0, <1>4 DEF Fields
<1>6. Shapes'
  BY <1>0, <1>5 DEF IInv, Shapes
<1>7. ASSUME NEW w \in Version PROVE Issued(w)'
  <2>1. CASE w = v
    BY <1>0, <1>3, <1>5, <2>1 DEF IInv, Issued
  <2>2. CASE w # v
    BY <1>0, <1>5, <2>2 DEF IInv, Issued
  <2> QED
    BY <2>1, <2>2
<1>8. ASSUME NEW p \in Publisher PROVE Prepared(p)' /\ Told(p)'
  <2>1. Prepared(p)'
    BY <1>0 DEF IInv, Prepared
  <2>2. Told(p)'
    BY <1>0, <1>5 DEF IInv, Told
  <2> QED
    BY <2>1, <2>2
<1> QED
  BY <1>6, <1>7, <1>8 DEF IInv

LEMMA InvNext ==
  ASSUME IInv, [Next]_vars
  PROVE  IInv'
<1>1. ASSUME NEW p \in Publisher, NEW source \in Version, NEW target \in Version,
             NEW adds \in Batches, Begin(p, source, target, adds)
      PROVE  IInv'
  BY <1>1, InvBegin
<1>2. ASSUME NEW p \in Publisher, Attest(p) PROVE IInv'
  BY <1>2, InvAttest
<1>3. ASSUME NEW p \in Publisher, Verify(p) PROVE IInv'
  BY <1>3, InvVerify
<1>4. ASSUME NEW p \in Publisher, Rename(p) PROVE IInv'
  BY <1>4, InvRename
<1>5. ASSUME NEW p \in Publisher, Crash(p) PROVE IInv'
  BY <1>5, InvEnd DEF Crash, NoAnswer
<1>6. ASSUME NEW v \in Version, Edit(v) PROVE IInv'
  BY <1>6, InvEdit
<1>7. ASSUME NEW v \in Version, Sign(v) PROVE IInv'
  BY <1>7, InvSign
<1>8. CASE UNCHANGED vars
  BY <1>8 DEF vars, IInv, Shapes, Issued, Prepared, Told
<1> QED
  BY <1>1, <1>2, <1>3, <1>4, <1>5, <1>6, <1>7, <1>8 DEF Next

------------------------------------------------------------------------------
\* The parts of the invariant that the properties read.
LEMMA InvGoverned == ASSUME IInv PROVE ReleasesAreGoverned
<1> SUFFICES ASSUME NEW v \in Version, Verified(v)
             PROVE  /\ Isolated(disk[v].cases)
                    /\ \A c \in disk[v].cases : c \in InVersion(BaseCases, v) \/ Governed(c)
  BY DEF ReleasesAreGoverned
<1>1. /\ disk[v] # None /\ v # Base /\ Loads(v, disk[v])
      /\ disk[v].manifest = disk[v].receipt.manifest
  BY DEF Verified, Verifies
<1>2. disk[v].cases = disk[v].receipt.manifest /\ Isolated(disk[v].cases)
  BY <1>1 DEF Loads
<1>3. Rightful(v, disk[v].receipt.manifest)
  BY <1>1 DEF IInv, Issued
<1> QED
  BY <1>1, <1>2, <1>3 DEF Rightful

LEMMA InvWinners == ASSUME IInv PROVE WinnersOwnTheirVersion
  BY DEF IInv, Told, WinnersOwnTheirVersion

(* Every case of a version that verifies is of the base or was admitted by three *)
(* persons, and the splits are isolated, whoever publishes meanwhile and         *)
(* whatever is edited between the reads of a publication (build_dataset_release, *)
(* verify_dataset_release).                                                      *)
THEOREM ReleasesGoverned ==
  Spec => []ReleasesAreGoverned
<1>1. Init => IInv
  BY InvInit
<1>2. IInv /\ [Next]_vars => IInv'
  BY InvNext
<1>3. IInv => ReleasesAreGoverned
  BY InvGoverned
<1> QED
  BY <1>1, <1>2, <1>3, PTL DEF Spec

(* A publisher that was told of success finds what it published under its        *)
(* version, unless the files were edited since.                                  *)
THEOREM WinnersKeepTheirVersion ==
  Spec => []WinnersOwnTheirVersion
<1>1. Init => IInv
  BY InvInit
<1>2. IInv /\ [Next]_vars => IInv'
  BY InvNext
<1>3. IInv => WinnersOwnTheirVersion
  BY InvWinners
<1> QED
  BY <1>1, <1>2, <1>3, PTL DEF Spec
==============================================================================
