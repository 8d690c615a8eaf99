---------------------------- MODULE DatasetRelease ----------------------------
(* Governed releases of the evaluation dataset (evaluation/release.py) with the  *)
(* blind annotation they rest on (annotation.py) and the isolation of splits     *)
(* (dataset.py).  A release is built from an attested source and additions, is   *)
(* written to a directory of its own, verified there, and renamed to its         *)
(* version.  Publishers race, a process may die, and files of a version may be   *)
(* edited.  A hash or HMAC is the content it covers: nobody else can issue one.  *)
EXTENDS Naturals, FiniteSets, TLC

CONSTANTS Version,   \* semantic versions, as numbers in their order
          Base,      \* the first version, published before
          BaseCases, \* its cases
          Batches,   \* the sets of additions that may be proposed together
          Labels,    \* Labels[f]: the candidate labels of fault type f
          Types,     \* Types[f]: its evidence types
          Publisher,
          None,
          MaxTries,  \* bound: publications begun
          MaxFaults  \* bound: crashes and edits

VARIABLES disk,   \* disk[v]: the published directory, or None
          tags,   \* tags[v]: the attestation its publisher signed for v, or None
          edited, \* history: versions whose files were edited
          pc, local, answer,
          tries, faults

vars == <<disk, tags, edited, pc, local, answer, tries, faults>>

Splits == {"dev", "validation", "test"}

(* A case is a record, of one of the splits (DatasetCase). *)
IsCase(c) ==
    /\ c = [field \in DOMAIN c |-> c[field]]
    /\ {"id", "split", "label", "version"} \subseteq DOMAIN c
    /\ c.split \in Splits

ASSUME CasesInOrder ==
    /\ \A c \in BaseCases : IsCase(c)
    /\ \A x \in UNION Batches : IsCase(x.case)

------------------------------------------------------------------------------
(* validate_blind_annotation *)
ValidAnnotation(task, a) ==
    /\ a.task = task.id
    /\ a.label \in Labels[task.fault]
    /\ a.tools # {} /\ a.tools \subseteq task.tools
    /\ a.evidence # {} /\ a.evidence \subseteq Types[task.fault]

(* compare_blind_annotations refuses two opinions of one person. *)
ComparableAnnotations(task, a, b) ==
    /\ ValidAnnotation(task, a) /\ ValidAnnotation(task, b)
    /\ a.id # b.id /\ a.reviewer # b.reviewer

\* Mutation: who reviewed may also decide.
DecidableByReviewer(task, a, b, d) ==
    /\ ComparableAnnotations(task, a, b)
    /\ d.task = task.id /\ {d.first, d.second} = {a.id, b.id}
    /\ d.action = "approve"
    /\ d.label \in Labels[task.fault]
    /\ d.tools # {} /\ d.tools \subseteq task.tools
    /\ d.evidence # {} /\ d.evidence \subseteq Types[task.fault]
(* adjudicate_annotations: what an approved decision of a third person needs. *)
Decidable(task, a, b, d) ==
    /\ ComparableAnnotations(task, a, b)
    /\ d.task = task.id /\ {d.first, d.second} = {a.id, b.id}
    /\ d.adjudicator \notin {a.reviewer, b.reviewer}
    /\ d.action = "approve"
    /\ d.label \in Labels[task.fault]
    /\ d.tools # {} /\ d.tools \subseteq task.tools
    /\ d.evidence # {} /\ d.evidence \subseteq Types[task.fault]

(* The candidate it returns, without the id it is given. *)
Candidate(task, a, b, d) ==
    [task |-> task.id, case |-> task.case, fault |-> task.fault, label |-> d.label,
     tools |-> d.tools, evidence |-> d.evidence, annotations |-> {a.id, b.id},
     adjudication |-> d.id, adjudicator |-> d.adjudicator]

(* _validate_addition: the proof is carried out again, nothing in it is believed. *)
ValidAddition(x, target) ==
    LET task == x.task
        c == x.case
    IN  /\ Decidable(task, x.first, x.second, x.decision)
        /\ x.candidate.governed = Candidate(task, x.first, x.second, x.decision)
        /\ c.id = task.case /\ c.fault = task.fault /\ c.facts = task.facts
        /\ c.allowed = task.tools
        /\ c.label = x.decision.label /\ c.tools = x.decision.tools
        /\ c.evidence = x.decision.evidence
        /\ c.version = target
        /\ c.record = x.provenance.record
        /\ (x.provenance.kind = "synthetic") = (c.source = "synthetic")

(* Near duplicates: the facts, without the ids in them, hardly differ. *)
NearDuplicate(c, d) == c.fault = d.fault /\ c.facts.shape = d.facts.shape

Clash(c, d) ==
    \/ c.id = d.id \/ c.template = d.template
    \/ <<c.source, c.record>> = <<d.source, d.record>>
    \/ NearDuplicate(c, d)

(* _validate_unique_and_not_duplicate *)
DistinctAdditions(existing, adds) ==
    \A x \in adds :
        /\ \A c \in existing : ~Clash(x.case, c)
        /\ \A y \in adds \ {x} :
             /\ ~Clash(x.case, y.case)
             /\ x.candidate.id # y.candidate.id
             /\ x.candidate.governed.annotations \cap y.candidate.governed.annotations = {}
             /\ x.candidate.governed.adjudication # y.candidate.governed.adjudication

(* DatasetRegistry: nothing of one split may be known from another. *)
Isolated(cases) == \A c, d \in cases : c.split # d.split => ~Clash(c, d)

------------------------------------------------------------------------------
InVersion(cases, v) == {[c EXCEPT !.version = v] : c \in cases}
Split(cases, s) == {c \in cases : c.split = s}

(* load_dataset_split for the three splits, and the registry over them. *)
Loads(v, dir) ==
    /\ dir # None
    /\ dir.manifest = dir.cases
    /\ \A s \in Splits :
         /\ Split(dir.cases, s) # {}
         /\ \A c, d \in Split(dir.cases, s) : c.id = d.id => c = d
    /\ \A c \in dir.cases : c.version = v
    /\ Isolated(dir.cases)

Attestation(v, manifest) == [version |-> v, manifest |-> manifest]

Receipt(source, tag, target, cases, adds) ==
    [version |-> target, source |-> source, attested |-> tag, manifest |-> cases,
     anchor |-> cases,
     additions |-> {[id |-> x.case.id, split |-> x.case.split, kind |-> x.provenance.kind,
                     record |-> x.case.record] : x \in adds},
     counts |-> [s \in Splits |-> Cardinality(Split(cases, s))]]

Directory(receipt, cases) ==
    [cases |-> cases, manifest |-> cases, anchor |-> cases, receipt |-> receipt]

(* verify_dataset_release, given the directory of the source as it is now. *)
Inherits(dir, target, sourceDir) == InVersion(sourceDir.cases, target) \subseteq dir.cases
DeclaresAdditions(dir, sourceDir) ==
    LET added == {c \in dir.cases : \A s \in sourceDir.cases : s.id # c.id \/ s.split # c.split}
    IN  /\ {<<c.split, c.id>> : c \in added} = {<<x.split, x.id>> : x \in dir.receipt.additions}
        /\ \A x \in dir.receipt.additions : \E c \in added :
             /\ c.id = x.id /\ c.split = x.split /\ c.record = x.record
             /\ (x.kind = "synthetic") = (c.source = "synthetic")

Verifies(target, dir, source, sourceDir) ==
    LET r == dir.receipt IN
    /\ r.version = target /\ r.source = source
    /\ Loads(source, sourceDir)
    /\ r.attested = Attestation(source, sourceDir.manifest)
    /\ Loads(target, dir)
    /\ dir.manifest = r.manifest
    /\ dir.anchor = r.anchor /\ dir.anchor = dir.cases
    /\ r.counts = [s \in Splits |-> Cardinality(Split(dir.cases, s))]
    /\ Inherits(dir, target, sourceDir)
    /\ DeclaresAdditions(dir, sourceDir)

------------------------------------------------------------------------------
BaseDirectory ==
    Directory(Receipt(None, None, Base, BaseCases, {}), BaseCases)

Idle == [source |-> None, target |-> None, adds |-> {}, cases |-> {}, dir |-> None]
NoAnswer == [kind |-> "none"]

Init ==
    /\ disk = [v \in Version |-> IF v = Base THEN BaseDirectory ELSE None]
    /\ tags = [v \in Version |-> IF v = Base THEN Attestation(Base, BaseCases) ELSE None]
    /\ edited = {}
    /\ pc = [p \in Publisher |-> "idle"]
    /\ local = [p \in Publisher |-> Idle]
    /\ answer = [p \in Publisher |-> NoAnswer]
    /\ tries = 0 /\ faults = 0

Goto(p, place) == pc' = [pc EXCEPT ![p] = place]
End(p, a) ==
    /\ Goto(p, "idle")
    /\ local' = [local EXCEPT ![p] = Idle]
    /\ answer' = [answer EXCEPT ![p] = a]
Refuse(p) == End(p, [kind |-> "refused"])

(* The caller has the tag of the source.  The versions, the target and the source *)
(* are looked at, the additions checked; a publication that is refused here, or   *)
(* that has no tag to show, leaves no trace.                                      *)
Begin(p, source, target, adds) ==
    LET old == disk[source].cases
        cases == InVersion(old, target) \cup {x.case : x \in adds}
    IN  /\ pc[p] = "idle" /\ tries < MaxTries
        /\ tags[source] # None
        /\ adds # {} /\ source < target
        /\ disk[target] = None
        /\ Loads(source, disk[source])
        /\ \A x \in adds : ValidAddition(x, target)
        /\ DistinctAdditions(old, adds)
        /\ Isolated(cases)
        /\ tries' = tries + 1
        /\ local' = [local EXCEPT ![p] = [source |-> source, target |-> target,
                                          adds |-> adds, cases |-> cases, dir |-> None]]
        /\ Goto(p, "attest")
        /\ answer' = [answer EXCEPT ![p] = NoAnswer]
        /\ UNCHANGED <<disk, tags, edited, faults>>

(* The manifests of the source are read a second time and held to the tag. *)
Attest(p) ==
    LET l == local[p]
        manifest == disk[l.source].manifest
    IN  /\ pc[p] = "attest"
        /\ IF tags[l.source] = Attestation(l.source, manifest)
           THEN /\ local' = [local EXCEPT ![p].dir =
                    Directory(Receipt(l.source, tags[l.source], l.target, l.cases, l.adds), l.cases)]
                /\ Goto(p, "verify")
                /\ UNCHANGED answer
           ELSE Refuse(p)
        /\ UNCHANGED <<disk, tags, edited, tries, faults>>

(* The directory is complete under a name of its own; it is verified there, with *)
(* the source read a third time.                                                 *)
Verify(p) ==
    LET l == local[p] IN
    /\ pc[p] = "verify"
    /\ IF Verifies(l.target, l.dir, l.source, disk[l.source])
       THEN Goto(p, "rename") /\ UNCHANGED <<local, answer>>
       ELSE Refuse(p)
    /\ UNCHANGED <<disk, tags, edited, tries, faults>>

\* Mutation: the directory takes the place of one that is there.
Overwrite(p) ==
    LET l == local[p] IN
    /\ pc[p] = "rename"
    /\ disk' = [disk EXCEPT ![l.target] = l.dir]
    /\ End(p, [kind |-> "published", version |-> l.target, dir |-> l.dir])
    /\ UNCHANGED <<tags, edited, tries, faults>>
(* A directory is never renamed over another one. *)
Rename(p) ==
    LET l == local[p] IN
    /\ pc[p] = "rename"
    /\ IF disk[l.target] = None
       THEN /\ disk' = [disk EXCEPT ![l.target] = l.dir]
            /\ End(p, [kind |-> "published", version |-> l.target, dir |-> l.dir])
       ELSE Refuse(p) /\ UNCHANGED disk
    /\ UNCHANGED <<tags, edited, tries, faults>>

(* dataset_source_attestation_tag: the holder of the key signs a version some     *)
(* time after it was published.  Signing is trusted to be for what was published: *)
(* whoever signs edited files has attested the edit.                              *)
Sign(v) ==
    /\ disk[v] # None /\ tags[v] = None /\ v \notin edited
    /\ tags' = [tags EXCEPT ![v] = Attestation(v, disk[v].manifest)]
    /\ UNCHANGED <<disk, edited, pc, local, answer, tries, faults>>

(* The process dies; a directory under its own name is left and never looked at. *)
Crash(p) ==
    /\ pc[p] # "idle" /\ faults < MaxFaults
    /\ faults' = faults + 1
    /\ End(p, NoAnswer)
    /\ UNCHANGED <<disk, tags, edited, tries>>

(* Somebody changes the label of a case or removes it, with or without its line  *)
(* in the manifest.                                                              *)
Edit(v) ==
    /\ disk[v] # None /\ faults < MaxFaults
    /\ faults' = faults + 1
    /\ \E c \in disk[v].cases : \E label \in (Labels[c.fault] \ {c.label}) \cup {None} :
         LET rest == disk[v].cases \ {c}
             new  == IF label = None THEN rest ELSE rest \cup {[c EXCEPT !.label = label]}
         IN  \E manifest \in {disk[v].manifest, new} :
                disk' = [disk EXCEPT ![v].cases = new, ![v].manifest = manifest]
    /\ edited' = edited \cup {v}
    /\ UNCHANGED <<tags, pc, local, answer, tries>>

Next ==
    \/ \E p \in Publisher :
         \/ \E source, target \in Version, adds \in Batches : Begin(p, source, target, adds)
         \/ Attest(p) \/ Verify(p) \/ Rename(p) \/ Crash(p)
    \/ \E v \in Version : Edit(v) \/ Sign(v)

Spec == Init /\ [][Next]_vars

------------------------------------------------------------------------------
Verified(v) ==
    /\ disk[v] # None /\ v # Base
    /\ LET s == disk[v].receipt.source IN Verifies(v, disk[v], s, disk[s])

(* Three persons stand behind a case: two who labelled it blindly and one who    *)
(* decided; and what the case says is what was decided.                          *)
Governed(c) ==
    \E x \in UNION Batches :
        /\ [x.case EXCEPT !.version = c.version] = c
        /\ Cardinality({x.first.reviewer, x.second.reviewer, x.decision.adjudicator}) = 3
        /\ x.decision.action = "approve" /\ x.decision.label = c.label

(* Every case of a version that verifies, along the whole chain of sources, is a *)
(* case of the base or was admitted by three persons, and nothing of one split   *)
(* can be known from another - whoever published meanwhile and whichever files   *)
(* were edited between the reads of a publication.                               *)
ReleasesAreGoverned ==
    \A v \in Version : Verified(v) =>
        /\ Isolated(disk[v].cases)
        /\ \A c \in disk[v].cases : c \in InVersion(BaseCases, v) \/ Governed(c)

(* Of publishers that race for a version one wins: a caller that was told of     *)
(* success finds under its version what it published, unless the files were      *)
(* edited since.                                                                 *)
WinnersOwnTheirVersion ==
    \A p \in Publisher :
        answer[p].kind = "published" /\ answer[p].version \notin edited
            => disk[answer[p].version] = answer[p].dir
==============================================================================
