----------------------------- MODULE GatesProofs -----------------------------
(***************************************************************************)
(* What the checks of CI prove. Contracts: what consumers of a release can *)
(* rely on, for any number of releases and any contracts. Lineage: that    *)
(* pii_reach computes the closure of the tagged columns of any project,    *)
(* and that a green check covers every column personal data gets to,       *)
(* provided nothing is hidden from the graph.                              *)
(***************************************************************************)
EXTENDS MCGates, TLAPS

-----------------------------------------------------------------------------
(* Contracts (ContractGate).                                               *)

Breaks(i, j) == BreaksReaders(released[i], released[j])

(* Release j keeps what release i promised, as far as the two properties   *)
(* speak of it.                                                            *)
Keeps(i, j) ==
  /\ Reaches(released[i], released[j])
  /\ released[i].lag # NoLag => released[j].lag # NoLag
  /\ Major(released[i]) = Major(released[j]) => ~Breaks(i, j)
  /\ released[i].version = released[j].version => released[i].schema = released[j].schema

Compared == \A pr \in pulls : pr.green /\ pr.base = Tip => ~Fails(Main, pr.head)
WellFormed == \A i \in 1 .. Tip : released[i].version \in Versions
KeptByAll == \A i, j \in 1 .. Tip : i <= j /\ Steady(i, j) => Keeps(i, j)

GateInv == ContractTypeOK /\ Compared /\ WellFormed /\ KeptByAll

-----------------------------------------------------------------------------
(* Types that can be read in place of one another.                         *)
LEMMA WideningsCompose ==
  ASSUME NEW x, NEW y, NEW z,
         y = x \/ y \in SafeWidenings(x), z = y \/ z \in SafeWidenings(y)
  PROVE  z = x \/ z \in SafeWidenings(x)
  BY DEF SafeWidenings

LEMMA VersionParts ==
  ASSUME NEW c \in Contract, c.version \in Versions
  PROVE  Major(c) \in Nat /\ Minor(c) \in Nat /\ c.version = <<Major(c), Minor(c)>>
  BY ContractAssumption DEF ContractAssumption, Major, Minor

LEMMA LagType == ASSUME NEW c \in Contract PROVE c.lag \in Nat \/ c.lag = NoLag
<1>1. c.lag \in Lags \cup {NoLag}
  BY Zenon DEF Contract
<1> QED BY <1>1, ContractAssumption DEF ContractAssumption

LEMMA NothingBreaksItself == ASSUME NEW c \in Contract PROVE ~BreaksReaders(c, c)
<1>1. ~SloRelaxed(c, c)
  BY LagType DEF SloRelaxed
<1>2. FieldsRemoved(c, c) = {} /\ TypesNarrowed(c, c) = {} /\ NullabilityRelaxed(c, c) = {}
  BY DEF FieldsRemoved, TypesNarrowed, NullabilityRelaxed
<1>3. Reclassified(c, c) = {}
  BY DEF Reclassified
<1> QED BY <1>1, <1>2, <1>3 DEF BreaksReaders

(* Two changes readers can live with add up to one they can live with,     *)
(* unless the freshness promise was withdrawn in between.                  *)
LEMMA ReadableStepsCompose ==
  ASSUME NEW a \in Contract, NEW b \in Contract, NEW c \in Contract,
         ~BreaksReaders(a, b), ~BreaksReaders(b, c),
         a.lag # NoLag => b.lag # NoLag
  PROVE  ~BreaksReaders(a, c)
<1>1. a.id = c.id /\ a.grain = c.grain
  BY DEF BreaksReaders
<1>2. ~SloRelaxed(a, c)
  <2>1. ~SloRelaxed(a, b) /\ ~SloRelaxed(b, c)
    BY DEF BreaksReaders
  <2> QED BY <2>1, LagType DEF SloRelaxed
<1>3. DOMAIN a.schema \subseteq DOMAIN b.schema /\ DOMAIN b.schema \subseteq DOMAIN c.schema
  BY DEF BreaksReaders, FieldsRemoved
<1>4. FieldsRemoved(a, c) = {}
  BY <1>3 DEF FieldsRemoved
<1>5. TypesNarrowed(a, c) = {}
  <2> SUFFICES ASSUME NEW f \in DOMAIN a.schema
               PROVE  \/ c.schema[f].type = a.schema[f].type
                      \/ c.schema[f].type \in SafeWidenings(a.schema[f].type)
    BY DEF TypesNarrowed, Kept
  <2>1. b.schema[f].type = a.schema[f].type \/ b.schema[f].type \in SafeWidenings(a.schema[f].type)
    BY <1>3 DEF BreaksReaders, TypesNarrowed, Kept
  <2>2. c.schema[f].type = b.schema[f].type \/ c.schema[f].type \in SafeWidenings(b.schema[f].type)
    BY <1>3 DEF BreaksReaders, TypesNarrowed, Kept
  <2> QED BY <2>1, <2>2, WideningsCompose
<1>6. NullabilityRelaxed(a, c) = {}
  <2>1. NullabilityRelaxed(a, b) = {} /\ NullabilityRelaxed(b, c) = {}
    BY DEF BreaksReaders
  <2> QED BY <1>3, <2>1 DEF NullabilityRelaxed, Kept
<1>7. Reclassified(a, c) = {}
  <2>1. Reclassified(a, b) = {} /\ Reclassified(b, c) = {}
    BY DEF BreaksReaders
  <2> QED BY <1>3, <2>1 DEF Reclassified, Kept
<1> QED BY <1>1, <1>2, <1>4, <1>5, <1>6, <1>7 DEF BreaksReaders

-----------------------------------------------------------------------------
(* The types alone, whatever the gate can see of main.                     *)
LEMMA ContractTypeInit == ASSUME ContractInit PROVE ContractTypeOK
<1>1. PICK c \in Proposals : released = <<c>> /\ pulls = {}
  BY DEF ContractInit
<1>2. c \in Contract /\ MaxReleases \in Nat \ {0}
  BY ContractAssumption DEF ContractAssumption
<1>3. released \in Seq(Contract) /\ Tip = 1
  BY <1>1, <1>2 DEF Tip
<1> QED BY <1>1, <1>2, <1>3 DEF ContractTypeOK

LEMMA EditsAreTyped ==
  ASSUME ContractTypeOK, NEW p \in Proposals, NEW S \in SUBSET pulls,
         pulls' = S \cup {Proposed(p)}, released' = released
  PROVE  ContractTypeOK'
<1>1. Tip' = Tip
  BY DEF Tip
<1>2. Proposed(p) \in PullRequest /\ Proposed(p).base = Tip
  BY ContractAssumption DEF ContractTypeOK, ContractAssumption, Proposed, PullRequest
<1> QED BY <1>1, <1>2 DEF ContractTypeOK

LEMMA CheckIsTyped ==
  ASSUME ContractTypeOK, NEW pr \in pulls, Check(pr)
  PROVE  ContractTypeOK'
<1> DEFINE passed == [pr EXCEPT !.green = TRUE]
<1>1. Tip' = Tip /\ released' = released /\ pulls' = (pulls \ {pr}) \cup {passed}
  BY DEF Tip, Check
<1>2. pr \in PullRequest
  BY DEF ContractTypeOK
<1>3. passed \in PullRequest /\ passed.base = pr.base
  BY <1>2 DEF PullRequest
<1> QED BY <1>1, <1>3 DEF ContractTypeOK

LEMMA MergeIsTyped ==
  ASSUME ContractTypeOK, NEW pr \in pulls, Merge(pr)
  PROVE  ContractTypeOK'
<1>0. PICK t \in Nat, n \in Nat : t = Tip /\ n = t + 1
  BY DEF ContractTypeOK
<1>1. /\ released \in Seq(Contract) /\ t = Len(released) /\ t < MaxReleases
      /\ pr \in PullRequest /\ pr.head \in Contract /\ MaxReleases \in Nat
  BY <1>0, ContractAssumption DEF ContractTypeOK, Merge, PullRequest, ContractAssumption, Tip
<1>2. Tip' = n /\ released' \in Seq(Contract)
  BY <1>0, <1>1 DEF Merge, Tip
<1>3. n \in 1 .. MaxReleases
  BY <1>0, <1>1
<1>4. ASSUME NEW q \in pulls' PROVE q \in PullRequest /\ q.base <= n
  <2>1. q \in PullRequest /\ q.base <= t
    BY <1>0 DEF ContractTypeOK, Merge
  <2>2. q.base \in 1 .. MaxReleases
    BY <2>1, Zenon DEF PullRequest
  <2> QED BY <1>0, <2>1, <2>2
<1> QED BY <1>2, <1>3, <1>4 DEF ContractTypeOK

LEMMA ContractTypeStep ==
  ASSUME ContractTypeOK, [ContractNext]_contractVars PROVE ContractTypeOK'
<1>1. CASE \E p \in Proposals : Open(p)
  BY <1>1, EditsAreTyped DEF Open
<1>2. CASE \E pr \in pulls, p \in Proposals : Push(pr, p)
  <2>1. PICK pr \in pulls, p \in Proposals : Push(pr, p)
    BY <1>2
  <2>2. pulls \ {pr} \in SUBSET pulls
    OBVIOUS
  <2> QED BY <2>1, <2>2, EditsAreTyped DEF Push
<1>3. CASE UNCHANGED contractVars
  BY <1>3 DEF contractVars, ContractTypeOK, Tip
<1> QED BY <1>1, <1>2, <1>3, CheckIsTyped, MergeIsTyped DEF ContractNext

LEMMA ContractInitEstablishes == ASSUME ContractInit PROVE GateInv
<1>1. PICK c \in Proposals : c.version # Malformed /\ released = <<c>>
  BY DEF ContractInit
<1>2. c \in Contract /\ c.version \in Versions
  BY <1>1, ContractAssumption DEF ContractAssumption, Contract
<1>3. Tip = 1 /\ released[1] = c /\ released \in Seq(Contract) /\ pulls = {}
  BY <1>1, <1>2 DEF ContractInit, Tip
<1>4. ContractTypeOK
  BY ContractTypeInit
<1>5. Compared /\ WellFormed
  BY <1>2, <1>3 DEF Compared, WellFormed
<1>6. Keeps(1, 1)
  BY <1>2, <1>3, VersionParts, NothingBreaksItself, ContractAssumption
  DEF Keeps, Reaches, Breaks, ContractAssumption
<1>7. KeptByAll
  BY <1>3, <1>6 DEF KeptByAll
<1> QED BY <1>4, <1>5, <1>7 DEF GateInv

(* Steps that leave main alone.                                            *)
LEMMA MainUnchanged ==
  ASSUME GateInv, released' = released
  PROVE  Tip' = Tip /\ Main' = Main /\ WellFormed' /\ KeptByAll'
<1>1. Tip' = Tip /\ Main' = Main
  BY DEF Tip, Main
<1>2. WellFormed'
  BY <1>1 DEF GateInv, WellFormed
<1>3. KeptByAll'
  BY <1>1 DEF GateInv, KeptByAll, Keeps, Steady, Breaks
<1> QED BY <1>1, <1>2, <1>3

LEMMA EditsPreserve ==
  ASSUME GateInv, NEW p \in Proposals, NEW S \in SUBSET pulls,
         pulls' = S \cup {Proposed(p)}, released' = released
  PROVE  GateInv'
<1>1. Tip' = Tip /\ Main' = Main /\ WellFormed' /\ KeptByAll'
  BY MainUnchanged
<1>2. ~Proposed(p).green
  BY DEF Proposed
<1>3. ContractTypeOK'
  BY EditsAreTyped DEF GateInv
<1>4. Compared'
  BY <1>1, <1>2 DEF GateInv, Compared
<1> QED BY <1>1, <1>3, <1>4 DEF GateInv

LEMMA CheckPreserves ==
  ASSUME FetchesMain, GateInv, NEW pr \in pulls, Check(pr)
  PROVE  GateInv'
<1> DEFINE passed == [pr EXCEPT !.green = TRUE]
<1>1. Tip' = Tip /\ Main' = Main /\ WellFormed' /\ KeptByAll'
  BY MainUnchanged DEF Check
<1>2. pr \in PullRequest
  BY DEF GateInv, ContractTypeOK
<1>3. passed \in PullRequest /\ passed.head = pr.head /\ passed.base = pr.base
  BY <1>2 DEF PullRequest
<1>4. ~Fails(Main, pr.head)
  BY DEF Check, Registered
<1>5. pulls' = (pulls \ {pr}) \cup {passed}
  BY DEF Check
<1>6. ContractTypeOK'
  BY CheckIsTyped DEF GateInv
<1>7. Compared'
  BY <1>1, <1>3, <1>4, <1>5 DEF GateInv, Compared
<1> QED BY <1>1, <1>6, <1>7 DEF GateInv

(* What one comparison says of two releases that follow one another.       *)
LEMMA OneRelease ==
  ASSUME NEW c \in Contract, NEW p \in Contract, ~Fails(c, p)
  PROVE  /\ c.version \in Versions /\ p.version \in Versions
         /\ Major(p) <= Major(c) => ~BreaksReaders(c, p)
         /\ c.version = p.version => c.schema = p.schema
<1>1. c.version \in Versions /\ p.version \in Versions
  BY DEF Fails, Contract
<1>2. Major(p) <= Major(c) => ~BreaksReaders(c, p)
  BY DEF Fails, IsViolation
<1>3. ASSUME c.version = p.version PROVE c.schema = p.schema
  <2>1. Major(p) = Major(c) /\ Minor(p) = Minor(c)
    BY <1>3 DEF Major, Minor
  <2>2. Major(p) <= Major(c) /\ NotAdvanced(c, p)
    BY <1>1, <2>1, VersionParts DEF NotAdvanced
  <2> QED BY <2>2 DEF Fails
<1> QED BY <1>1, <1>2, <1>3

LEMMA MergePreserves ==
  ASSUME GateInv, NEW pr \in pulls, Merge(pr)
  PROVE  GateInv'
<1> DEFINE new == pr.head
<1>0. PICK t \in Nat, n \in Nat : t = Tip /\ n = t + 1
  BY DEF GateInv, ContractTypeOK
<1>1. /\ released \in Seq(Contract) /\ t \in 1 .. MaxReleases /\ t = Len(released)
      /\ t < MaxReleases /\ pr \in PullRequest /\ new \in Contract /\ MaxReleases \in Nat
  BY <1>0, ContractAssumption DEF GateInv, ContractTypeOK, Merge, PullRequest, ContractAssumption, Tip
<1>2. /\ released' = Append(released, new) /\ Tip' = n /\ released' \in Seq(Contract)
      /\ released'[n] = new /\ \A k \in 1 .. t : released'[k] = released[k]
  BY <1>0, <1>1 DEF Merge, Tip
<1>3. \A k \in 1 .. t : released[k] \in Contract
  BY <1>1
<1>4. ~Fails(released[t], new)
  BY <1>0 DEF GateInv, Compared, Merge, Main
<1>5. ContractTypeOK'
  BY MergeIsTyped DEF GateInv
<1>6. Compared'
  <2> SUFFICES ASSUME NEW q \in pulls' PROVE q.base # n
    BY <1>2 DEF Compared
  <2>1. q \in PullRequest /\ q.base <= t
    BY <1>0 DEF GateInv, ContractTypeOK, Merge
  <2>2. q.base \in 1 .. MaxReleases
    BY <2>1, Zenon DEF PullRequest
  <2> QED BY <1>0, <1>1, <2>1, <2>2
<1>7. WellFormed'
  <2>1. released'[n].version \in Versions
    BY <1>0, <1>1, <1>2, <1>3, <1>4, OneRelease
  <2>2. \A i \in 1 .. n : i \in 1 .. t \/ i = n
    BY <1>0
  <2> QED BY <1>0, <1>2, <2>1, <2>2 DEF GateInv, WellFormed
<1>8. ASSUME NEW i \in 1 .. t, NEW j \in 1 .. t, i <= j, Steady(i, j)'
      PROVE  Keeps(i, j)'
  <2>1. Steady(i, j)
    BY <1>0, <1>1, <1>2, <1>8 DEF Steady
  <2>2. Keeps(i, j)
    BY <1>0, <1>8, <2>1 DEF GateInv, KeptByAll
  <2> QED BY <1>2, <2>2 DEF Keeps, Breaks
<1>9. ASSUME NEW i \in 1 .. t, Steady(i, n)'
      PROVE  Keeps(i, n)'
  <2>1. Steady(i, t)
    BY <1>0, <1>1, <1>2, <1>9 DEF Steady
  <2>2. Keeps(i, t)
    BY <1>0, <1>1, <2>1 DEF GateInv, KeptByAll
  <2>3. Reaches(released[t], new) /\ (released[t].lag # NoLag => new.lag # NoLag)
    BY <1>0, <1>1, <1>2, <1>9 DEF Steady
  <2> DEFINE a == released[i]  b == released[t]
  <2>4. a \in Contract /\ b \in Contract /\ a.version \in Versions
    BY <1>0, <1>1, <1>3 DEF GateInv, WellFormed
  <2>5. /\ b.version \in Versions /\ new.version \in Versions
        /\ Major(new) <= Major(b) => ~BreaksReaders(b, new)
        /\ b.version = new.version => b.schema = new.schema
    BY <1>1, <1>4, <2>4, OneRelease
  <2>6. /\ Reaches(a, b) /\ (a.lag # NoLag => b.lag # NoLag)
        /\ Major(a) = Major(b) => ~BreaksReaders(a, b)
        /\ a.version = b.version => a.schema = b.schema
    BY <2>2 DEF Keeps, Breaks
  <2>7. /\ Major(a) \in Nat /\ Major(b) \in Nat /\ Major(new) \in Nat
        /\ Minor(a) \in Nat /\ Minor(b) \in Nat /\ Minor(new) \in Nat
    BY <1>1, <2>4, <2>5, VersionParts
  <2>8. Reaches(a, new)
    BY <2>3, <2>6, <2>7 DEF Reaches
  <2>9. ASSUME Major(a) = Major(new) PROVE ~BreaksReaders(a, new)
    <3>1. Major(a) = Major(b) /\ Major(new) <= Major(b)
      BY <2>3, <2>6, <2>7, <2>9 DEF Reaches
    <3> QED BY <1>1, <2>4, <2>5, <2>6, <3>1, ReadableStepsCompose
  <2>10. ASSUME a.version = new.version PROVE a.schema = new.schema
    <3>1. Major(a) = Major(new) /\ Minor(a) = Minor(new)
      BY <2>10 DEF Major, Minor
    <3>2. Major(a) = Major(b) /\ Minor(a) = Minor(b)
      BY <2>3, <2>6, <2>7, <3>1 DEF Reaches
    <3>3. a.version = b.version
      BY <2>4, <2>5, <3>2, VersionParts
    <3> QED BY <2>5, <2>6, <2>10, <3>3
  <2> QED BY <1>2, <2>3, <2>6, <2>8, <2>9, <2>10 DEF Keeps, Breaks
<1>10. Keeps(n, n)'
  <2>1. new.version \in Versions
    BY <1>1, <1>3, <1>4, OneRelease
  <2> QED
    BY <1>1, <1>2, <2>1, VersionParts, NothingBreaksItself, ContractAssumption
    DEF Keeps, Reaches, Breaks, ContractAssumption
<1>11. KeptByAll'
  <2> SUFFICES ASSUME NEW i \in 1 .. n, NEW j \in 1 .. n, i <= j, Steady(i, j)'
               PROVE  Keeps(i, j)'
    BY <1>2 DEF KeptByAll
  <2>1. CASE j \in 1 .. t
    BY <1>1, <1>8, <2>1
  <2>2. CASE j = n /\ i \in 1 .. t
    BY <1>9, <2>2
  <2>3. CASE i = n /\ j = n
    BY <1>10, <2>3
  <2> QED BY <1>0, <1>1, <2>1, <2>2, <2>3
<1> QED BY <1>5, <1>6, <1>7, <1>11 DEF GateInv

LEMMA ContractStep ==
  ASSUME FetchesMain, GateInv, [ContractNext]_contractVars PROVE GateInv'
<1>1. CASE \E p \in Proposals : Open(p)
  BY <1>1, EditsPreserve DEF Open
<1>2. CASE \E pr \in pulls, p \in Proposals : Push(pr, p)
  <2>1. PICK pr \in pulls, p \in Proposals : Push(pr, p)
    BY <1>2
  <2>2. pulls \ {pr} \in SUBSET pulls
    OBVIOUS
  <2> QED BY <2>1, <2>2, EditsPreserve DEF Push
<1>3. CASE \E pr \in pulls : Check(pr)
  BY <1>3, CheckPreserves
<1>4. CASE \E pr \in pulls : Merge(pr)
  BY <1>4, MergePreserves
<1>5. CASE UNCHANGED contractVars
  <2>1. released' = released /\ pulls' = pulls
    BY <1>5 DEF contractVars
  <2> QED BY <2>1, MainUnchanged DEF GateInv, ContractTypeOK, Compared
<1> QED BY <1>1, <1>2, <1>3, <1>4, <1>5 DEF ContractNext

LEMMA GateAlways == FetchesMain /\ ContractSpec => []GateInv
<1> SUFFICES ASSUME FetchesMain PROVE ContractSpec => []GateInv
  OBVIOUS
<1>1. ContractInit => GateInv
  BY ContractInitEstablishes
<1>2. GateInv /\ [ContractNext]_contractVars => GateInv'
  BY ContractStep
<1> QED BY <1>1, <1>2, PTL DEF ContractSpec

(* If the checkout has origin/main, a reader of any release can read every *)
(* later one of the same major number, however many releases lie between.  *)
THEOREM ReadersKeepReading == FetchesMain /\ ContractSpec => []UnderOneMajor
<1>1. GateInv => UnderOneMajor
  <2> SUFFICES ASSUME GateInv, NEW i \in 1 .. Tip, NEW j \in 1 .. Tip, i < j, Steady(i, j),
                      Major(released[i]) = Major(released[j])
               PROVE  ~BreaksReaders(released[i], released[j])
    BY DEF UnderOneMajor
  <2>1. i <= j
    BY DEF GateInv, ContractTypeOK
  <2> QED BY <2>1 DEF GateInv, KeptByAll, Keeps, Breaks
<1> QED BY <1>1, GateAlways, PTL

(* And a version number names one schema, among any number of releases.    *)
THEOREM NumbersNameSchemas == FetchesMain /\ ContractSpec => []VersionNamesSchema
<1>1. GateInv => VersionNamesSchema
  <2> SUFFICES ASSUME GateInv, NEW i \in 1 .. Tip, NEW j \in 1 .. Tip, i < j, Steady(i, j),
                      released[i].version = released[j].version
               PROVE  released[i].schema = released[j].schema
    BY DEF VersionNamesSchema
  <2>1. i <= j
    BY DEF GateInv, ContractTypeOK
  <2> QED BY <2>1 DEF GateInv, KeptByAll, Keeps
<1> QED BY <1>1, GateAlways, PTL

-----------------------------------------------------------------------------
(* Lineage (Lineage).                                                      *)

Found == reach \cup seen
Before == stage \in {"write", "build"}

(* What graph.build has recorded of the columns it is through with.        *)
Traced ==
  /\ DOMAIN unresolved \subseteq project.untraceable
  /\ \A c \in DOMAIN unresolved : unresolved[c] = Reads(TableOf[c])
  /\ stage = "write" => DOMAIN unresolved = {}
  /\ stage # "write" =>
       \A e \in project.flows :
         e[2] \in ColumnsOf(Catalogued) \ todo => e \in edges \/ e[2] \in DOMAIN unresolved
  /\ ~Before => todo = {}

(* The frontier is the border of what has been found.                      *)
Border ==
  /\ Before => roots = {} /\ frontier = {} /\ seen = {} /\ reach = {}
  /\ stage # "impact" => seen \subseteq reach /\ frontier = {}
  /\ stage \in {"served", "failed"} => roots = {}
  /\ ~Before => project.pii \subseteq Found \cup roots
  /\ roots \subseteq project.pii
  /\ frontier \subseteq Found
  /\ \A e \in edges : e[1] \in Found \ frontier => e[2] \in Found

Closed(S) == project.pii \subseteq S /\ \A e \in edges : e[1] \in S => e[2] \in S

(* Nothing is found that is not in every closed set.                       *)
Least == \A S \in SUBSET Columns : Closed(S) => Found \subseteq S

Clean == MissingFromInventory \cup UntaggedServed \cup UnresolvedNearPii = {}

LineageInv ==
  /\ LineageTypeOK
  /\ Traced
  /\ Border
  /\ Least
  /\ stage = "served" => Clean

-----------------------------------------------------------------------------
LEMMA LineageInitEstablishes == ASSUME LineageInit PROVE LineageInv
<1> USE LineageAssumption DEF LineageInit, LineageAssumption
<1>1. DOMAIN unresolved = {} /\ unresolved \in [DOMAIN unresolved -> SUBSET Tables]
  OBVIOUS
<1>2. project \in Project
  BY DEF Project
<1>3. LineageTypeOK
  BY <1>1, <1>2 DEF LineageTypeOK
<1>4. Traced /\ Border /\ Least
  BY <1>1 DEF Traced, Border, Least, Found, Before
<1> QED BY <1>3, <1>4 DEF LineageInv

LEMMA WritePreserves == ASSUME LineageInv, NEW p \in Projects, Write(p) PROVE LineageInv'
<1> USE DEF LineageInv, Write
<1>1. p \in Project
  BY LineageAssumption DEF LineageAssumption
<1>2. LineageTypeOK'
  BY <1>1 DEF LineageTypeOK, ColumnsOf
<1>3. Traced' /\ Border' /\ Least'
  BY DEF Traced, Border, Least, Found, Before
<1> QED BY <1>2, <1>3

LEMMA TracePreserves == ASSUME LineageInv, NEW c \in todo, TraceColumn(c) PROVE LineageInv'
<1> USE DEF LineageInv, TraceColumn
<1>1. /\ c \in Columns /\ TableOf[c] \in Tables /\ project \in Project
      /\ Reads(TableOf[c]) \subseteq Tables /\ project' = project /\ stage' = stage
  BY LineageAssumption DEF LineageAssumption, LineageTypeOK, Reads
<1>2. Found = {} /\ Found' = {}
  BY DEF Border, Before, Found
<1>3. Border' /\ Least'
  BY <1>2 DEF Border, Least, Before, Found
<1>4. CASE c \in project.untraceable
  <2>1. /\ DOMAIN unresolved' = DOMAIN unresolved \cup {c} /\ edges' = edges
        /\ \A d \in DOMAIN unresolved' :
             unresolved'[d] = IF d = c THEN Reads(TableOf[c]) ELSE unresolved[d]
    BY <1>4
  <2>2. unresolved' \in [DOMAIN unresolved' -> SUBSET Tables]
    BY <1>1, <1>4, <2>1 DEF LineageTypeOK
  <2>3. LineageTypeOK'
    BY <1>1, <2>1, <2>2 DEF LineageTypeOK
  <2>4. Traced'
    BY <1>1, <1>4, <2>1 DEF Traced, Before
  <2> QED BY <1>3, <2>3, <2>4
<1>5. CASE c \notin project.untraceable
  <2>1. edges' = edges \cup EdgesTo(c) /\ unresolved' = unresolved
    BY <1>5
  <2>2. EdgesTo(c) \subseteq PossibleFlows
    BY <1>1 DEF EdgesTo, Project
  <2>3. LineageTypeOK'
    BY <1>1, <2>1, <2>2 DEF LineageTypeOK
  <2>4. Traced'
    BY <1>1, <2>1 DEF Traced, Before, EdgesTo
  <2> QED BY <1>3, <2>3, <2>4
<1> QED BY <1>4, <1>5

(* The steps of pii_reach.                                                 *)
LEMMA ReachPreserves ==
  ASSUME LineageInv,
         \/ StartReach
         \/ \E c \in roots : StartImpact(c)
         \/ \E c \in frontier : Expand(c)
         \/ EndImpact
  PROVE  LineageInv'
<1> USE DEF LineageInv
<1>1. project \in Project /\ project.pii \subseteq Columns
  BY DEF LineageTypeOK, Project
<1>2. \A e \in edges : e[1] \in Columns /\ e[2] \in Columns
  BY DEF LineageTypeOK, PossibleFlows
<1>3. CASE StartReach
  <2>1. LineageTypeOK' /\ Traced'
    BY <1>1, <1>3 DEF StartReach, LineageTypeOK, Traced, Before
  <2>2. Border' /\ Least'
    BY <1>3 DEF StartReach, Border, Least, Closed, Before, Found
  <2> QED BY <1>3, <2>1, <2>2 DEF StartReach
<1>4. ASSUME NEW c \in roots, StartImpact(c) PROVE LineageInv'
  <2>1. LineageTypeOK' /\ Traced'
    BY <1>4 DEF StartImpact, LineageTypeOK, Traced, Before
  <2>2. Border'
    BY <1>4 DEF StartImpact, Border, Before, Found
  <2>3. Least'
    BY <1>4 DEF StartImpact, Border, Least, Closed, Found
  <2> QED BY <1>4, <2>1, <2>2, <2>3 DEF StartImpact
<1>5. ASSUME NEW c \in frontier, Expand(c) PROVE LineageInv'
  <2>1. NewChildren(c) \subseteq Columns
    BY <1>2 DEF NewChildren
  <2>2. LineageTypeOK' /\ Traced'
    BY <1>5, <2>1 DEF Expand, LineageTypeOK, Traced, Before
  <2>3. Found' = Found \cup NewChildren(c)
    BY <1>5 DEF Expand, Found
  <2>4. \A e \in edges : e[1] = c => e[2] \in Found'
    BY <2>3 DEF NewChildren, Found
  <2>5. Border'
    BY <1>5, <2>3, <2>4 DEF Expand, Border, Before
  <2>6. c \in Found
    BY <1>5 DEF Border
  <2>7. Least'
    BY <1>5, <2>3, <2>6 DEF Expand, Least, Closed, NewChildren
  <2> QED BY <1>5, <2>2, <2>5, <2>7 DEF Expand
<1>6. CASE EndImpact
  <2>1. LineageTypeOK' /\ Traced'
    BY <1>6 DEF EndImpact, LineageTypeOK, Traced, Before
  <2>2. Found' = Found
    BY <1>6 DEF EndImpact, Found
  <2>3. Border' /\ Least'
    BY <1>6, <2>2 DEF EndImpact, Border, Least, Closed, Before, Found
  <2> QED BY <1>6, <2>1, <2>3 DEF EndImpact
<1> QED BY <1>3, <1>4, <1>5, <1>6

LEMMA EndCheckPreserves == ASSUME LineageInv, EndCheck PROVE LineageInv'
<1> USE DEF LineageInv, EndCheck, analysis
<1>1. LineageTypeOK' /\ Traced'
  BY DEF LineageTypeOK, Traced, Before
<1>2. Border' /\ Least'
  BY DEF Border, Least, Closed, Before, Found
<1>3. stage' = "served" => Clean'
  BY DEF Clean, MissingFromInventory, UntaggedServed, UnresolvedNearPii, PiiTables
<1> QED BY <1>1, <1>2, <1>3

LEMMA ProducePreserves == ASSUME LineageInv, NEW t \in Models, Produce(t) PROVE LineageInv'
<1> USE DEF LineageInv, Produce, analysis
<1>1. LineageTypeOK' /\ Traced'
  BY DEF LineageTypeOK, Traced, Before, ColumnsOf
<1>2. Border' /\ Least'
  BY DEF Border, Least, Closed, Before, Found
<1>3. Clean'
  BY DEF Clean, MissingFromInventory, UntaggedServed, UnresolvedNearPii, PiiTables
<1> QED BY <1>1, <1>2, <1>3

LEMMA LineageStep == ASSUME LineageInv, [LineageNext]_lineageVars PROVE LineageInv'
<1>1. CASE UNCHANGED lineageVars
  <2> USE <1>1 DEF LineageInv, lineageVars
  <2>1. LineageTypeOK' /\ Traced'
    BY DEF LineageTypeOK, Traced, Before
  <2>2. Border' /\ Least'
    BY DEF Border, Least, Closed, Before, Found
  <2>3. Clean' <=> Clean
    BY DEF Clean, MissingFromInventory, UntaggedServed, UnresolvedNearPii, PiiTables
  <2> QED BY <2>1, <2>2, <2>3
<1> QED
  BY <1>1, WritePreserves, TracePreserves, ReachPreserves, EndCheckPreserves, ProducePreserves
  DEF LineageNext

LEMMA LineageAlways == LineageSpec => []LineageInv
<1>1. LineageInit => LineageInv
  BY LineageInitEstablishes
<1>2. LineageInv /\ [LineageNext]_lineageVars => LineageInv'
  BY LineageStep
<1> QED BY <1>1, <1>2, PTL DEF LineageSpec

(* Every variable of the analysis keeps its type, for any project.         *)
THEOREM LineageTypeCorrect == LineageSpec => []LineageTypeOK
<1>1. LineageInv => LineageTypeOK
  BY DEF LineageInv
<1> QED BY <1>1, LineageAlways, PTL

(* pii_reach is through with exactly the columns that are reachable from a *)
(* tagged one, in whatever order it took them.                             *)
THEOREM FindsTheClosure == LineageSpec => []ReachIsClosure
<1>1. LineageInv => ReachIsClosure
  <2> SUFFICES ASSUME LineageInv, stage \in {"served", "failed"}
               PROVE  Closed(reach) /\ \A S \in SUBSET reach : Closed(S) => S = reach
    BY DEF ReachIsClosure, Closed
  <2>1. Found = reach /\ frontier = {} /\ roots = {}
    BY DEF LineageInv, Border, Found
  <2>2. Closed(reach)
    BY <2>1 DEF LineageInv, Border, Closed, Before
  <2>3. reach \subseteq Columns
    BY DEF LineageInv, LineageTypeOK
  <2> QED BY <2>1, <2>2, <2>3 DEF LineageInv, Least
<1> QED BY <1>1, LineageAlways, PTL

-----------------------------------------------------------------------------
(* Personal data is only where the check has looked.                       *)
DataInv ==
  /\ stage = "served" => carries \subseteq reach
  /\ stage # "served" => carries = Personal

(* A flow into a model is an edge, or the column counts as near personal   *)
(* data when one of the tables the model reads does.                       *)
LEMMA FlowsAreSeen ==
  ASSUME LineageInv, NothingHidden, stage = "served",
         NEW e \in project.flows, e[1] \in reach
  PROVE  e[2] \in reach
<1> USE LineageAssumption DEF LineageAssumption
<1> DEFINE c == e[2]  t == TableOf[c]
<1>1. /\ project.flows \subseteq PossibleFlows /\ project.untraceable \subseteq MayFail
  BY DEF LineageInv, LineageTypeOK, Project
<1>2. e[1] \in Columns /\ c \in Columns /\ t \in Models /\ TableOf[e[1]] \in ReadsFrom[t]
  BY <1>1 DEF PossibleFlows
<1>3. Found = reach /\ frontier = {} /\ todo = {}
  BY DEF LineageInv, Border, Traced, Found, Before
<1>4. e \in edges \/ c \in DOMAIN unresolved
  BY <1>2, <1>3 DEF LineageInv, Traced, NothingHidden, ColumnsOf
<1>5. CASE e \in edges
  BY <1>3, <1>5 DEF LineageInv, Border
<1>6. CASE c \in DOMAIN unresolved
  <2>1. unresolved[c] = DependsOn[t] \cap Tables /\ c \in MayFail
    BY <1>1, <1>6 DEF LineageInv, Traced, Reads
  <2>2. DependsOn[t] \cap Ephemeral = {}
    BY <1>2, <2>1 DEF NothingHidden
  <2>3. ReadsFrom[t] = DependsOn[t]
    BY <1>2, <2>2
  <2>4. TableOf[e[1]] \in unresolved[c] \cap PiiTables
    BY <1>2, <2>1, <2>3 DEF PiiTables
  <2>5. c \in UnresolvedNearPii
    BY <1>6, <2>4 DEF UnresolvedNearPii
  <2> QED BY <2>5 DEF LineageInv, Clean
<1> QED BY <1>4, <1>5, <1>6

LEMMA DataStep ==
  ASSUME NothingHidden, LineageInv, LineageInv', DataInv, [LineageNext]_lineageVars
  PROVE  DataInv'
<1>1. CASE EndCheck
  <2>1. Personal \subseteq project.pii
    BY DEF LineageInv, LineageTypeOK, Project
  <2>2. project.pii \subseteq reach
    BY <1>1 DEF EndCheck, LineageInv, Border, Before, Found
  <2> QED BY <1>1, <2>1, <2>2 DEF EndCheck, DataInv, analysis
<1>2. ASSUME NEW t \in Models, Produce(t) PROVE DataInv'
  <2>1. \A c \in ColumnsOf({t}), s \in carries : <<s, c>> \in project.flows => c \in reach
    <3> SUFFICES ASSUME NEW c \in ColumnsOf({t}), NEW s \in carries, <<s, c>> \in project.flows
                 PROVE  c \in reach
      OBVIOUS
    <3>1. s \in reach
      BY <1>2 DEF Produce, DataInv
    <3> QED BY <1>2, <3>1, FlowsAreSeen DEF Produce
  <2> QED BY <1>2, <2>1 DEF Produce, DataInv, analysis
<1>3. CASE \E p \in Projects : Write(p)
  BY <1>3 DEF Write, DataInv
<1>4. CASE \E c \in todo : TraceColumn(c)
  BY <1>4 DEF TraceColumn, DataInv
<1>5. CASE StartReach \/ EndImpact
  BY <1>5 DEF StartReach, EndImpact, DataInv
<1>6. CASE (\E c \in roots : StartImpact(c)) \/ (\E c \in frontier : Expand(c))
  BY <1>6 DEF StartImpact, Expand, DataInv
<1>7. CASE UNCHANGED lineageVars
  BY <1>7 DEF lineageVars, DataInv
<1> QED BY <1>1, <1>2, <1>3, <1>4, <1>5, <1>6, <1>7 DEF LineageNext

(* A green check is a promise about the data, in any project without       *)
(* models outside the catalog and untraceable columns behind ephemerals.   *)
THEOREM GreenIsCovered == NothingHidden /\ LineageSpec => []Covered
<1> SUFFICES ASSUME NothingHidden PROVE LineageSpec => []Covered
  OBVIOUS
<1>1. LineageInit => DataInv
  BY DEF LineageInit, DataInv
<1>2. LineageInv /\ LineageInv' /\ DataInv /\ [LineageNext]_lineageVars => DataInv'
  BY DataStep
<1>3. LineageInv /\ DataInv => Covered
  <2> SUFFICES ASSUME LineageInv, DataInv, stage = "served", NEW c \in carries
               PROVE  TableOf[c] \in project.inventory /\ (TableOf[c] \in Served => c \in project.pii)
    BY DEF Covered
  <2>1. c \in reach /\ Clean
    BY DEF DataInv, LineageInv
  <2>2. TableOf[c] \in project.inventory
    BY <2>1 DEF Clean, MissingFromInventory, PiiTables
  <2>3. TableOf[c] \in Served => c \in project.pii
    BY <2>1 DEF Clean, UntaggedServed
  <2> QED BY <2>2, <2>3
<1> QED BY <1>1, <1>2, <1>3, LineageAlways, PTL DEF LineageSpec

-----------------------------------------------------------------------------
(* The two checks beside one another.                                      *)

(* No variable of either check leaves its type, in whichever order pull    *)
(* requests are edited, checked and merged, whether or not the gate sees   *)
(* main, and whatever project is analysed.                                 *)
THEOREM GatesTyped == Spec => []TypesOK
<1> DEFINE Inv == ContractTypeOK /\ LineageInv
<1>1. Init => Inv
  BY ContractTypeInit, LineageInitEstablishes DEF Init
<1>2. Inv /\ [Next]_<<contractVars, lineageVars, check>> => Inv'
  <2> SUFFICES ASSUME Inv, [Next]_<<contractVars, lineageVars, check>> PROVE Inv'
    OBVIOUS
  <2>1. [ContractNext]_contractVars /\ [LineageNext]_lineageVars
    BY DEF Next
  <2> QED BY <2>1, ContractTypeStep, LineageStep
<1>3. Inv => TypesOK
  BY DEF LineageInv, TypesOK
<1> QED BY <1>1, <1>2, <1>3, PTL DEF Spec
=============================================================================
