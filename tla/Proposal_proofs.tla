--------------------------- MODULE Proposal_proofs ---------------------------
(***************************************************************************)
(* Theorems about Proposal: an interrupted or refused mutate run leaves the  *)
(* worktree as it was or its files in backups, unless their removal or the   *)
(* undo failed; paid jobs keep their                                         *)
(* directories, outputs stay together with what they were made from, the     *)
(* sandbox keeps forbidden changes out, and what is committed was admitted.  *)
(* The first part is what every step of the mutate run (module Mutation)     *)
(* keeps: its renames go through the places in one order, so that an         *)
(* interrupted installation has lost nothing and an undone one is as it began. *)
(***************************************************************************)
EXTENDS Proposal, SequenceTheorems, FiniteSetTheorems, WellFoundedInduction, TLAPS

------------------------------------------------------------------------------
(* The order of the renames *)

Size == Len(InstallOrder)

\* The first places of the order, as many as s has.
Prefix(s) ==
  /\ s \in Seq(Places)
  /\ Len(s) <= Size
  /\ \A i \in 1..Len(s) : s[i] = InstallOrder[i]

\* The order names every place once.
LEMMA OrderFacts ==
  /\ InstallOrder \in Seq(Places) /\ Size \in Nat /\ DOMAIN InstallOrder = 1..Size
  /\ \A i \in 1..Size : InstallOrder[i] \in Places
  /\ \A p \in Places : \E i \in 1..Size : p = InstallOrder[i]
  /\ \A i, j \in 1..Size : InstallOrder[i] = InstallOrder[j] => i = j
  /\ Size > 0 /\ InstallOrder[Size] = "artifact"
<1>1. Roots \in Seq(RootSet) /\ Len(Roots) \in Nat /\ DOMAIN Roots = 1..Len(Roots)
  BY MutationAssumption DEF RootSet
<1>2. Roots \in Seq(Places) /\ "artifact" \in Places
  BY <1>1, SeqMonotonic DEF Places
<1>3. /\ InstallOrder \in Seq(Places) /\ Size = Len(Roots) + 1
      /\ \A i \in 1..Len(Roots) : InstallOrder[i] = Roots[i]
      /\ InstallOrder[Len(Roots) + 1] = "artifact"
  BY <1>2, AppendProperties DEF InstallOrder, Size
<1>4. \A i \in 1..Len(Roots) : Roots[i] \in RootSet /\ Roots[i] # "artifact"
  BY <1>1, MutationAssumption DEF RootSet
<1>5. \A p \in Places : \E i \in 1..Size : p = InstallOrder[i]
  <2> TAKE p \in Places
  <2>1. CASE p = "artifact"
    <3>1. Size \in 1..Size
      BY <1>1, <1>3
    <3> QED BY <1>3, <2>1, <3>1
  <2>2. CASE p \in RootSet
    <3>1. PICK i \in 1..Len(Roots) : p = Roots[i]
      BY <1>1, <2>2 DEF RootSet
    <3>2. i \in 1..Size
      BY <1>1, <1>3
    <3> QED BY <1>3, <3>1, <3>2
  <2> QED BY <2>1, <2>2 DEF Places
<1>6. \A i, j \in 1..Size : InstallOrder[i] = InstallOrder[j] => i = j
  <2> TAKE i, j \in 1..Size
  <2>1. CASE i \in 1..Len(Roots) /\ j \in 1..Len(Roots)
    BY <2>1, <1>1, <1>3, MutationAssumption
  <2>2. CASE i = Len(Roots) + 1 \/ j = Len(Roots) + 1
    BY <2>2, <1>1, <1>3, <1>4
  <2> QED BY <2>1, <2>2, <1>1, <1>3
<1>7. Size \in Nat /\ DOMAIN InstallOrder = 1..Size /\ Size > 0
  BY <1>1, <1>3 DEF Size
<1>8. \A i \in 1..Size : InstallOrder[i] \in Places
  BY <1>3, <1>7, ElementOfSeq DEF Size
<1> QED BY <1>3, <1>5, <1>6, <1>7, <1>8

\* The next rename takes the next place.
LEMMA PrefixGrows ==
  ASSUME NEW s, Prefix(s), Len(s) < Size
  PROVE  /\ Prefix(Append(s, Following(s))) /\ Len(Append(s, Following(s))) = Len(s) + 1
         /\ Following(s) = InstallOrder[Len(s) + 1] /\ Len(s) + 1 \in 1..Size
<1>1. Len(s) \in Nat /\ s \in Seq(Places)
  BY DEF Prefix
<1>2. Len(s) + 1 \in 1..Size
  BY <1>1, OrderFacts
<1>3. Following(s) \in Places /\ Following(s) = InstallOrder[Len(s) + 1]
  BY <1>2, OrderFacts DEF Following
<1>4. /\ Append(s, Following(s)) \in Seq(Places) /\ Len(Append(s, Following(s))) = Len(s) + 1
      /\ \A i \in 1..Len(s) : Append(s, Following(s))[i] = s[i]
      /\ Append(s, Following(s))[Len(s) + 1] = Following(s)
  BY <1>1, <1>3, AppendProperties
<1> QED BY <1>1, <1>2, <1>3, <1>4 DEF Prefix

\* An undone rename gives back the place that was renamed last.
LEMMA PrefixShrinks ==
  ASSUME NEW s, Prefix(s), s # << >>
  PROVE  /\ Prefix(FrontOf(s)) /\ Len(FrontOf(s)) = Len(s) - 1
         /\ LastOf(s) = InstallOrder[Len(s)] /\ Len(s) \in 1..Size
<1>1. Len(s) \in Nat /\ s \in Seq(Places) /\ Len(s) <= Size /\ Len(s) # 0
  BY EmptySeq DEF Prefix
<1>2. Len(s) \in 1..Size /\ LastOf(s) = InstallOrder[Len(s)]
  BY <1>1, OrderFacts DEF LastOf, Prefix
<1>3. /\ FrontOf(s) \in Seq(Places) /\ Len(FrontOf(s)) = Len(s) - 1
      /\ \A i \in 1..Len(s) - 1 : FrontOf(s)[i] = s[i]
  <2>1. Len(s) - 1 \in Nat /\ 1..Len(s) - 1 \subseteq 1..Len(s)
    BY <1>1
  <2>2. \A i \in 1..Len(s) : s[i] \in Places
    BY <1>1, ElementOfSeq
  <2>3. PICK n \in Int : n = Len(s) - 1
    BY <2>1
  <2>4. /\ SubSeq(s, 1, n) \in Seq(Places)
        /\ Len(SubSeq(s, 1, n)) = IF 1 <= n THEN n - 1 + 1 ELSE 0
        /\ \A i \in 1 .. n - 1 + 1 : SubSeq(s, 1, n)[i] = s[1 + i - 1]
    BY <2>1, <2>2, <2>3, SubSeqProperties
  <2>5. n - 1 + 1 = n /\ \A i \in 1..n : 1 + i - 1 = i
    BY <2>3
  <2>6. FrontOf(s) = SubSeq(s, 1, n)
    BY <2>3 DEF FrontOf
  <2>7. Len(FrontOf(s)) = n /\ \A i \in 1..n : FrontOf(s)[i] = s[i]
    <3>1. Len(FrontOf(s)) = n
      BY <2>1, <2>3, <2>4, <2>5, <2>6
    <3>2. ASSUME NEW i \in 1..n PROVE FrontOf(s)[i] = s[i]
      <4>1. i \in 1..n - 1 + 1 /\ 1 + i - 1 = i
        BY <2>5
      <4>2. SubSeq(s, 1, n)[i] = s[1 + i - 1]
        BY <4>1, <2>4
      <4> QED BY <4>1, <4>2, <2>6
    <3> QED BY <3>1, <3>2
  <2> QED BY <2>3, <2>4, <2>6, <2>7
<1>4. Len(FrontOf(s)) <= Size /\ 1..Len(FrontOf(s)) = 1..Len(s) - 1
  BY <1>1, <1>3, OrderFacts
<1>5. \A i \in 1..Len(s) - 1 : s[i] = InstallOrder[i]
  <2>1. \A i \in 1..Len(s) - 1 : i \in 1..Len(s)
    BY <1>1
  <2> QED BY <2>1 DEF Prefix
<1>6. \A i \in 1..Len(FrontOf(s)) : FrontOf(s)[i] = InstallOrder[i]
  BY <1>3, <1>4, <1>5
<1> QED BY <1>2, <1>3, <1>4, <1>6 DEF Prefix

LEMMA EmptyPrefix == Prefix(<< >>) /\ Len(<< >>) = 0
<1>1. << >> \in Seq(Places) /\ Len(<< >>) = 0
  BY EmptySeq
<1>2. \A i \in 1..Len(<< >>) : FALSE
  BY <1>1
<1>3. Len(<< >>) <= Size
  BY <1>1, OrderFacts
<1> QED BY <1>1, <1>2, <1>3 DEF Prefix
------------------------------------------------------------------------------
(* Types *)

Values == Contents \cup {None, "empty", "part"}
Jobs == [number : Nat, names : SUBSET NamePlaces, expose : BOOLEAN]
Early == {"prepare", "start", "harbor", "check", "copy"}
Renaming == {"install", "undo", "discard"}

MutationTyped ==
  /\ pc \in Resting \cup Early \cup Renaming \cup {"accepted"}
  /\ tree \in [Places -> Values] /\ origin \in [Places -> Values]
  /\ backups \in [Places -> Values] /\ replacements \in [Places -> Values]
  /\ Prefix(moved) /\ Prefix(installed) /\ Len(installed) <= Len(moved)
  /\ pc \notin Renaming => moved = << >> /\ installed = << >> /\ backups = Nothing
  /\ pc \in Early \ {"prepare"} =>
       bundle.before \in [Places -> Values] /\ bundle.names \in SUBSET NamePlaces
       /\ bundle.expose \in BOOLEAN
  /\ pc \in {"check", "copy"} => returned \in Returns
  /\ paid \in Nat /\ job \in {None} \cup Jobs

LEMMA NothingTyped == Nothing \in [Places -> Values]
BY DEF Nothing, Values

LEMMA MutationInitTyped == MutationInit => MutationTyped
BY EmptyPrefix, NothingTyped DEF MutationInit, MutationTyped, Resting, Early, Renaming,
   Values, Contents

\* The checkout keeps its places when one of them gets a value.
LEMMA PlaceSet ==
  ASSUME NEW f \in [Places -> Values], NEW p \in Places, NEW v \in Values
  PROVE  [f EXCEPT ![p] = v] \in [Places -> Values]
OBVIOUS

\* What a failure and a kill have in common: the staging is gone.
LEMMA UnstageTyped ==
  ASSUME MutationTyped, Unstage
  PROVE  /\ backups' \in [Places -> Values] /\ replacements' \in [Places -> Values]
         /\ moved' = << >> /\ installed' = << >> /\ backups' = Nothing
         /\ Prefix(moved') /\ Prefix(installed') /\ Len(installed') <= Len(moved')
<1>1. moved' = << >> /\ installed' = << >> /\ backups' = Nothing /\ replacements' = Nothing
  BY DEF Unstage
<1>2. Len(<< >>) <= Len(<< >>)
  BY EmptyPrefix
<1> QED BY <1>1, <1>2, EmptyPrefix, NothingTyped

\* A removal that stops half-way.
LEMMA HalfRemovedTyped ==
  ASSUME MutationTyped, HalfRemoved
  PROVE  /\ tree' \in [Places -> Values] /\ pc = "undo" /\ installed # << >>
         /\ \E stump : tree' = [tree EXCEPT ![LastOf(installed)] = stump]
<1>1. /\ pc = "undo" /\ installed # << >> /\ Prefix(installed) /\ tree \in [Places -> Values]
      /\ \E stump \in Stump(LastOf(installed)) : tree' = [tree EXCEPT ![LastOf(installed)] = stump]
  BY DEF HalfRemoved, ToRemove, Pending, MutationTyped
<1>2. LastOf(installed) \in Places
  BY <1>1, PrefixShrinks, OrderFacts
<1>3. Stump(LastOf(installed)) \subseteq Values
  BY DEF Stump, Values, Contents
<1> QED BY <1>1, <1>2, <1>3, PlaceSet

LEMMA BeginTyped ==
  ASSUME MutationTyped, Begin
  PROVE  MutationTyped'
<1>1. tree' \in [Places -> Values] /\ origin' = tree'
  <2>1. "artifact" \in Places /\ tree["artifact"] \in Values /\ "empty" \in Values
    BY DEF MutationTyped, Places, Values
  <2> QED BY <2>1, PlaceSet DEF Begin, MutationTyped
<1>2. pc' = "prepare" /\ pc \notin Renaming
  BY DEF Begin, Resting, Renaming
<1> QED BY <1>1, <1>2 DEF Begin, MutationTyped, copyVars, Early, Renaming

\* Every step of the run.
LEMMA MutationStepTyped ==
  ASSUME MutationTyped, MutationStep
  PROVE  MutationTyped'
<1> USE DEF Early, Renaming, Resting
<1>1. /\ tree \in [Places -> Values] /\ origin \in [Places -> Values]
      /\ backups \in [Places -> Values] /\ replacements \in [Places -> Values]
      /\ Prefix(moved) /\ Prefix(installed) /\ Len(installed) <= Len(moved)
      /\ Len(moved) \in Nat /\ Len(installed) \in Nat /\ Size \in Nat
  <2>1. /\ tree \in [Places -> Values] /\ origin \in [Places -> Values]
        /\ backups \in [Places -> Values] /\ replacements \in [Places -> Values]
        /\ Prefix(moved) /\ Prefix(installed) /\ Len(installed) <= Len(moved)
    BY DEF MutationTyped
  <2>2. Len(moved) \in Nat /\ Len(installed) \in Nat
    BY <2>1 DEF Prefix
  <2> QED BY <2>1, <2>2, OrderFacts
<1>2. /\ paid \in Nat /\ job \in {None} \cup Jobs
      /\ pc \notin Renaming => moved = << >> /\ installed = << >> /\ backups = Nothing
  BY DEF MutationTyped
<1>3. ASSUME Fail, tree' \in [Places -> Values], UNCHANGED <<origin, job, paid>>
      PROVE  MutationTyped'
  <2>1. pc' = "failed" /\ Unstage
    BY <1>3 DEF Fail
  <2> QED BY <1>1, <1>2, <1>3, <2>1, UnstageTyped DEF MutationTyped
<1>4. CASE PrepareBundle
  <2>0. \A names \in SUBSET NamePlaces, expose \in BOOLEAN :
          Leaving(names, expose) \in SUBSET NamePlaces
    BY DEF Leaving, Redacted
  <2>1. PICK expose \in BOOLEAN, left \in SUBSET NamePlaces :
          IF Admissible(left, expose)
          THEN /\ bundle' = [before |-> tree, manifest |-> manifest,
                             names |-> left, expose |-> expose]
               /\ pc' = "start"
               /\ UNCHANGED <<returned, replacements, backups, moved, installed>>
          ELSE Fail
    BY <1>4, <2>0 DEF PrepareBundle
  <2>2. UNCHANGED <<tree, origin, job, paid>> /\ pc = "prepare"
    BY <1>4 DEF PrepareBundle
  <2>3. CASE ~Admissible(left, expose)
    BY <1>1, <1>3, <2>1, <2>2, <2>3
  <2>4. CASE Admissible(left, expose)
    <3>1. /\ bundle'.before = tree /\ bundle'.names \in SUBSET NamePlaces
          /\ bundle'.expose \in BOOLEAN
      BY <2>1, <2>4
    <3>2. pc' = "start" /\ UNCHANGED <<returned, replacements, backups, moved, installed>>
      BY <2>1, <2>4
    <3> QED BY <1>1, <1>2, <2>2, <3>1, <3>2 DEF MutationTyped
  <2> QED BY <2>3, <2>4
<1>5. CASE StartJob
  <2>1. UNCHANGED <<tree, origin>> /\ pc = "start"
    BY <1>5 DEF StartJob
  <2>2. CASE Fail /\ UNCHANGED <<job, paid>>
    BY <1>1, <1>3, <2>1, <2>2
  <2>3. CASE /\ job' = [number |-> paid + 1, names |-> bundle.names, expose |-> bundle.expose]
             /\ paid' = paid + 1 /\ pc' = "harbor" /\ UNCHANGED copyVars
    <3>1. bundle.before \in [Places -> Values] /\ bundle.names \in SUBSET NamePlaces
          /\ bundle.expose \in BOOLEAN
      BY <2>1 DEF MutationTyped
    <3>2. job' \in Jobs /\ paid' \in Nat
      BY <1>2, <2>3, <3>1 DEF Jobs
    <3> QED BY <1>1, <1>2, <2>1, <2>3, <3>1, <3>2 DEF MutationTyped, copyVars
  <2> QED BY <1>5, <2>2, <2>3 DEF StartJob
<1>6. CASE RunHarbor
  <2>1. UNCHANGED <<tree, origin, job, paid>> /\ pc = "harbor"
    BY <1>6 DEF RunHarbor
  <2>2. CASE Fail
    BY <1>1, <1>3, <2>1, <2>2
  <2>3. CASE /\ returned' \in Returns /\ pc' = "check"
             /\ UNCHANGED <<bundle, replacements, backups, moved, installed>>
    BY <1>1, <1>2, <2>1, <2>3 DEF MutationTyped
  <2> QED BY <1>6, <2>2, <2>3 DEF RunHarbor
<1>7. CASE CheckReturned
  <2>1. UNCHANGED <<tree, origin, job, paid>> /\ pc = "check"
    BY <1>7 DEF CheckReturned
  <2>2. CASE Fail
    BY <1>1, <1>3, <2>1, <2>2
  <2>3. CASE pc' = "copy" /\ UNCHANGED copyVars
    BY <1>1, <1>2, <2>1, <2>3 DEF MutationTyped, copyVars
  <2> QED BY <1>7, <2>2, <2>3 DEF CheckReturned
<1>8. CASE CopyReturned
  <2>1. /\ UNCHANGED <<tree, bundle, returned, backups, moved, installed, origin, job, paid>>
        /\ pc = "copy" /\ pc' \in {"install", "undo"}
    BY <1>8 DEF CopyReturned
  <2>2. replacements' \in [Places -> Values]
    <3>1. CASE UNCHANGED replacements
      BY <1>1, <3>1
    <3>2. CASE replacements' = [p \in Places |->
                  IF p # "artifact" THEN returned.place[p]
                  ELSE IF returned.artifact THEN "edit" ELSE bundle.before[p]]
      <4>1. returned.place \in [RootSet -> {None, "base", "edit", "foul"}]
            /\ bundle.before \in [Places -> Values]
        BY <2>1 DEF MutationTyped, Returns
      <4>2. \A p \in Places : p # "artifact" => p \in RootSet
        BY DEF Places
      <4>3. \A p \in RootSet : returned.place[p] \in Values
        BY <4>1 DEF Values, Contents
      <4> QED BY <3>2, <4>1, <4>2, <4>3 DEF Values, Contents
    <3> QED BY <1>8, <3>1, <3>2 DEF CopyReturned
  <2> QED BY <1>1, <1>2, <2>1, <2>2 DEF MutationTyped
<1>9. CASE MoveAside
  <2>0. /\ pc = "install" /\ pc' = pc /\ Len(moved) = Len(installed) /\ Len(moved) < Size
        /\ UNCHANGED <<bundle, returned, replacements, installed, origin, job, paid>>
        /\ moved' = Append(moved, Following(moved))
        /\ backups' = [backups EXCEPT ![Following(moved)] = tree[Following(moved)]]
        /\ tree' = [tree EXCEPT ![Following(moved)] = None]
    BY <1>9 DEF MoveAside, Size
  <2>1. Following(moved) \in Places /\ Prefix(moved') /\ Len(moved') = Len(moved) + 1
    BY <1>1, <2>0, PrefixGrows, OrderFacts
  <2>2. tree[Following(moved)] \in Values /\ None \in Values
    BY <1>1, <2>1 DEF Values
  <2>3. tree' \in [Places -> Values] /\ backups' \in [Places -> Values]
    BY <1>1, <2>0, <2>1, <2>2, PlaceSet
  <2> QED BY <1>1, <1>2, <2>0, <2>1, <2>3 DEF MutationTyped
<1>10. CASE MoveIn
  <2>0. /\ pc = "install" /\ pc' = pc /\ Len(installed) < Len(moved)
        /\ UNCHANGED <<bundle, returned, backups, moved, origin, job, paid>>
        /\ installed' = Append(installed, Following(installed))
        /\ replacements' = [replacements EXCEPT ![Following(installed)] = None]
        /\ tree' = [tree EXCEPT ![Following(installed)] = replacements[Following(installed)]]
    BY <1>10 DEF MoveIn
  <2>1. Len(installed) < Size
    BY <1>1, <2>0 DEF Prefix
  <2>2. /\ Following(installed) \in Places /\ Prefix(installed')
        /\ Len(installed') = Len(installed) + 1
    BY <1>1, <2>0, <2>1, PrefixGrows, OrderFacts
  <2>3. replacements[Following(installed)] \in Values /\ None \in Values
    BY <1>1, <2>2 DEF Values
  <2>4. tree' \in [Places -> Values] /\ replacements' \in [Places -> Values]
    BY <1>1, <2>0, <2>2, <2>3, PlaceSet
  <2> QED BY <1>1, <1>2, <2>0, <2>2, <2>4 DEF MutationTyped
<1>11. CASE InstallFails
  BY <1>1, <1>2, <1>11 DEF InstallFails, MutationTyped, copyVars
<1>12. CASE Verify
  BY <1>1, <1>2, <1>12 DEF Verify, MutationTyped, copyVars
<1>13. CASE Discard
  <2>1. pc' = "accepted" /\ Unstage /\ UNCHANGED <<tree, origin, job, paid>>
    BY <1>13 DEF Discard
  <2> QED BY <1>1, <1>2, <2>1, UnstageTyped DEF MutationTyped
<1>14. CASE UndoInstalled
  <2>0. /\ pc = "undo" /\ pc' = pc /\ installed # << >>
        /\ UNCHANGED <<bundle, returned, replacements, backups, moved, origin, job, paid>>
        /\ installed' = FrontOf(installed)
        /\ tree' = [tree EXCEPT ![LastOf(installed)] = None]
    BY <1>14 DEF UndoInstalled, ToRemove, Pending
  <2>1. /\ LastOf(installed) \in Places /\ Prefix(installed')
        /\ Len(installed') = Len(installed) - 1
    BY <1>1, <2>0, PrefixShrinks, OrderFacts
  <2>2. None \in Values
    BY DEF Values
  <2>3. tree' \in [Places -> Values]
    BY <1>1, <2>0, <2>1, <2>2, PlaceSet
  <2> QED BY <1>1, <1>2, <2>0, <2>1, <2>3 DEF MutationTyped
<1>15. CASE UndoMoved
  <2>0. /\ pc = "undo" /\ pc' = pc /\ moved # << >>
        /\ UNCHANGED <<bundle, returned, replacements, installed, origin, job, paid>>
        /\ moved' = FrontOf(moved)
        /\ tree' = [tree EXCEPT ![LastOf(moved)] = backups[LastOf(moved)]]
        /\ backups' = [backups EXCEPT ![LastOf(moved)] = None]
        /\ \/ installed = << >>
           \/ LastOf(moved) = "artifact" /\ LastOf(installed) # "artifact"
    BY <1>15 DEF UndoMoved, ToRename, Pending
  <2>1. /\ LastOf(moved) \in Places /\ Prefix(moved') /\ Len(moved') = Len(moved) - 1
        /\ LastOf(moved) = InstallOrder[Len(moved)] /\ Len(moved) \in 1..Size
    BY <1>1, <2>0, PrefixShrinks, OrderFacts
  <2>2. backups[LastOf(moved)] \in Values /\ None \in Values
    BY <1>1, <2>1 DEF Values
  <2>3. tree' \in [Places -> Values] /\ backups' \in [Places -> Values]
    BY <1>1, <2>0, <2>1, <2>2, PlaceSet
  <2>4. Len(installed) <= Len(moved) - 1
    <3>1. CASE installed = << >>
      BY <1>1, <2>1, <3>1, EmptyPrefix
    <3>2. CASE installed # << >> /\ LastOf(moved) = "artifact" /\ LastOf(installed) # "artifact"
      <4>1. LastOf(installed) = InstallOrder[Len(installed)] /\ Len(installed) \in 1..Size
        BY <1>1, <3>2, PrefixShrinks
      <4>2. Len(installed) # Len(moved)
        BY <2>1, <3>2, <4>1
      <4> QED BY <1>1, <2>1, <4>2
    <3> QED BY <2>0, <3>1, <3>2
  <2> QED BY <1>1, <1>2, <2>0, <2>1, <2>3, <2>4 DEF MutationTyped
<1>16. CASE UndoEnds
  <2>1. Fail /\ UNCHANGED <<tree, origin, job, paid>>
    BY <1>16 DEF UndoEnds
  <2> QED BY <1>1, <1>3, <2>1
<1>17. CASE ReadManifest
  <2>1. /\ pc = "accepted" /\ pc' \in {"ok", "unread"}
        /\ UNCHANGED <<tree, copyVars, job, origin, paid>>
    BY <1>17 DEF ReadManifest
  <2> QED BY <1>1, <1>2, <2>1 DEF MutationTyped, copyVars
<1>18. CASE KillMutation
  <2>1. /\ pc' \in {"unread", "killed"} /\ Unstage /\ UNCHANGED <<origin, job, paid>>
        /\ HalfRemoved \/ UNCHANGED tree
    BY <1>18 DEF KillMutation
  <2>2. tree' \in [Places -> Values]
    BY <1>1, <2>1, HalfRemovedTyped
  <2> QED BY <1>1, <1>2, <2>1, <2>2, UnstageTyped DEF MutationTyped
<1>19. CASE DiscardFails
  <2>1. /\ pc = "discard" /\ pc' = "undo" /\ backups' \in BackupsLeft
        /\ UNCHANGED <<tree, bundle, returned, replacements, moved, installed, origin, job, paid>>
    BY <1>19 DEF DiscardFails
  <2>2. {backups[p] : p \in Places} \cup {None, "part", "foul"} \subseteq Values
    BY <1>1 DEF Values, Contents
  <2>3. backups' \in [Places -> Values]
    BY <2>1, <2>2 DEF BackupsLeft
  <2> QED BY <1>1, <1>2, <2>1, <2>3 DEF MutationTyped
<1>20. CASE UndoFails
  <2>1. Fail /\ (HalfRemoved \/ UNCHANGED tree) /\ UNCHANGED <<origin, job, paid>>
    BY <1>20 DEF UndoFails
  <2>2. tree' \in [Places -> Values]
    BY <1>1, <2>1, HalfRemovedTyped
  <2> QED BY <1>3, <2>1, <2>2
<1> QED BY <1>4, <1>5, <1>6, <1>7, <1>8, <1>9, <1>10, <1>11, <1>12, <1>13, <1>14, <1>15,
          <1>16, <1>17, <1>18, <1>19, <1>20 DEF MutationStep

------------------------------------------------------------------------------
(* The installation: what was there is in its place or in a backup *)

\* Places that were renamed away are in the backups, the others untouched.
Kept ==
  \A i \in 1..Size :
    IF i <= Len(moved) THEN backups[InstallOrder[i]] = origin[InstallOrder[i]]
    ELSE tree[InstallOrder[i]] = origin[InstallOrder[i]]

InPlaceOrLitter ==
  \A p \in Places : origin[p] \in {None, tree[p]} \/ <<p, origin[p]>> \in litter

InstallInv ==
  ~torn => /\ pc \in Early \cup Renaming \cup {"failed"} => Kept
           /\ pc = "killed" => InPlaceOrLitter

\* Every place held something when the bundle was made, so that every place that was
\* renamed away has a backup.
WholeInv ==
  ~torn => /\ pc = "prepare" => origin["artifact"] # None
           /\ pc \in (Early \ {"prepare"}) \cup Renaming => \A p \in Places : origin[p] # None

\* Nothing was renamed, and nothing was written: all is kept.
LEMMA KeptAtRest ==
  ASSUME tree = origin, moved = << >>
  PROVE  Kept
<1>1. \A i \in 1..Size : ~(i <= Len(moved))
  BY EmptyPrefix, OrderFacts
<1> QED BY <1>1 DEF Kept

\* And the other way round.
LEMMA KeptIsOrigin ==
  ASSUME MutationTyped, Kept, moved = << >>
  PROVE  tree = origin
<1>1. \A i \in 1..Size : tree[InstallOrder[i]] = origin[InstallOrder[i]]
  <2>1. \A i \in 1..Size : ~(i <= Len(moved))
    BY EmptyPrefix, OrderFacts
  <2> QED BY <2>1 DEF Kept
<1>2. \A p \in Places : tree[p] = origin[p]
  BY <1>1, OrderFacts
<1> QED BY <1>2 DEF MutationTyped

\* A step that renames nothing and leaves the staging keeps Kept.
LEMMA KeptStays ==
  ASSUME Kept, UNCHANGED <<tree, origin, backups, moved>>
  PROVE  Kept'
BY DEF Kept

LEMMA BeginKept ==
  ASSUME MutationTyped, Begin
  PROVE  InstallInv'
<1>1. tree' = origin' /\ moved' = << >> /\ pc' = "prepare"
  <2>1. moved = << >>
    BY DEF Begin, MutationTyped, Resting, Renaming
  <2> QED BY <2>1 DEF Begin, copyVars
<1>2. Kept'
  <2>1. \A i \in 1..Size : ~(i <= Len(moved'))
    BY <1>1, EmptyPrefix, OrderFacts
  <2> QED BY <1>1, <2>1 DEF Kept
<1> QED BY <1>1, <1>2 DEF InstallInv, Early, Renaming

LEMMA BeginWhole ==
  ASSUME MutationTyped, Begin
  PROVE  WholeInv'
<1>1. pc' = "prepare" /\ origin' = tree' /\ tree \in [Places -> Values] /\ "artifact" \in Places
  BY DEF Begin, MutationTyped, Places
<1>2. tree'["artifact"] # None
  BY <1>1, ContentAssumption DEF Begin
<1> QED BY <1>1, <1>2 DEF WholeInv, Early, Renaming

\* What a step of a run whose undo is not broken off has in common with any other.
LEMMA NotTorn ==
  ASSUME MutationStep, ~torn'
  PROVE  ~torn /\ origin' = origin /\ ~DiscardFails
<1>1. ~DiscardFails
  BY DEF DiscardFails
<1>2. CASE UndoFails
  BY <1>1, <1>2 DEF UndoFails
<1>3. CASE KillMutation
  BY <1>1, <1>3 DEF KillMutation
<1>4. CASE ~UndoFails /\ ~KillMutation
  <2>1. UNCHANGED <<origin, torn>>
    BY <1>1, <1>4 DEF MutationStep, PrepareBundle, StartJob, RunHarbor, CheckReturned,
       CopyReturned, MoveAside, MoveIn, InstallFails, Verify, Discard, UndoInstalled, UndoMoved,
       UndoEnds, ReadManifest
  <2> QED BY <1>1, <2>1
<1> QED BY <1>2, <1>3, <1>4

LEMMA MutationStepWhole ==
  ASSUME MutationTyped, InstallInv, WholeInv, MutationStep
  PROVE  WholeInv'
<1> USE DEF Early, Renaming
<1> SUFFICES ASSUME ~torn' PROVE WholeInv'
  BY DEF WholeInv
<1>1. ~torn /\ origin' = origin
  BY NotTorn
<1>2. CASE PrepareBundle
  <2>1. pc = "prepare" /\ pc' \in {"start", "failed"}
    BY <1>2 DEF PrepareBundle, Fail
  <2>2. ASSUME pc' = "start" PROVE \A p \in Places : origin[p] # None
    <3>1. \A p \in RootSet : tree[p] # None
      BY <1>2, <2>2 DEF PrepareBundle, Admissible, Present, Fail
    <3>2. tree = origin
      BY <1>1, <2>1, KeptIsOrigin DEF InstallInv, MutationTyped
    <3>3. origin["artifact"] # None
      BY <1>1, <2>1 DEF WholeInv
    <3> QED BY <3>1, <3>2, <3>3 DEF Places
  <2> QED BY <1>1, <2>1, <2>2 DEF WholeInv
<1>3. CASE ~PrepareBundle
  <2>1. /\ pc' # "prepare"
        /\ pc' \in (Early \ {"prepare"}) \cup Renaming =>
             pc \in (Early \ {"prepare"}) \cup Renaming
    BY <1>3 DEF MutationStep, StartJob, RunHarbor, CheckReturned, CopyReturned, MoveAside,
       MoveIn, InstallFails, Verify, Discard, DiscardFails, UndoInstalled, UndoMoved, UndoEnds,
       UndoFails, ReadManifest, KillMutation, Fail, ToRemove, ToRename
  <2> QED BY <1>1, <2>1 DEF WholeInv
<1> QED BY <1>2, <1>3

LEMMA MutationStepKept ==
  ASSUME MutationTyped, InstallInv, WholeInv, MutationStep
  PROVE  InstallInv'
<1> USE DEF Early, Renaming, Resting
<1> SUFFICES ASSUME ~torn' PROVE InstallInv'
  BY DEF InstallInv
<1>0. ~torn
  BY NotTorn
<1>1. /\ tree \in [Places -> Values] /\ origin \in [Places -> Values]
      /\ backups \in [Places -> Values]
      /\ Prefix(moved) /\ Prefix(installed) /\ Len(installed) <= Len(moved)
      /\ Len(moved) \in Nat /\ Len(installed) \in Nat /\ Size \in Nat
  BY OrderFacts DEF MutationTyped, Prefix
<1>2. pc \in Early \cup Renaming => Kept
  BY <1>0 DEF InstallInv
<1>3. pc \in Early => moved = << >>
  BY DEF MutationTyped
<1>4. \A i, j \in 1..Size : InstallOrder[i] = InstallOrder[j] => i = j
  BY OrderFacts
<1>5. \A i \in 1..Size : InstallOrder[i] \in Places
  BY OrderFacts
<1>6. ASSUME Fail, UNCHANGED <<tree, origin>>, pc \in Early \/ (pc = "undo" /\ moved = << >>)
      PROVE  InstallInv'
  <2>1. moved = << >> /\ Kept
    BY <1>2, <1>3, <1>6
  <2>2. tree' = origin'
    BY <1>6, <2>1, KeptIsOrigin
  <2>3. pc' = "failed" /\ moved' = << >>
    BY <1>6 DEF Fail, Unstage
  <2>4. Kept'
    <3>1. \A i \in 1..Size : ~(i <= Len(moved'))
      BY <2>3, EmptyPrefix, OrderFacts
    <3> QED BY <2>2, <3>1 DEF Kept
  <2> QED BY <2>3, <2>4 DEF InstallInv
<1>7. ASSUME UNCHANGED <<tree, origin, backups, moved>>, pc \in Early \cup Renaming,
             pc' # "killed"
      PROVE  InstallInv'
  BY <1>2, <1>7, KeptStays DEF InstallInv
<1>8. CASE PrepareBundle
  BY <1>6, <1>7, <1>8 DEF PrepareBundle
<1>9. CASE StartJob
  BY <1>6, <1>7, <1>9 DEF StartJob, copyVars
<1>10. CASE RunHarbor
  BY <1>6, <1>7, <1>10 DEF RunHarbor
<1>11. CASE CheckReturned
  BY <1>6, <1>7, <1>11 DEF CheckReturned, copyVars
<1>12. CASE CopyReturned
  BY <1>7, <1>12 DEF CopyReturned
<1>13. CASE MoveAside
  <2>0. /\ pc = "install" /\ pc' = pc /\ Len(moved) < Size
        /\ origin' = origin /\ moved' = Append(moved, Following(moved))
        /\ backups' = [backups EXCEPT ![Following(moved)] = tree[Following(moved)]]
        /\ tree' = [tree EXCEPT ![Following(moved)] = None]
    BY <1>13 DEF MoveAside, Size
  <2>1. /\ Len(moved') = Len(moved) + 1 /\ Len(moved) + 1 \in 1..Size
        /\ Following(moved) = InstallOrder[Len(moved) + 1]
    BY <1>1, <2>0, PrefixGrows
  <2>2. Kept
    BY <1>2, <2>0
  <2>3. ASSUME NEW i \in 1..Size
        PROVE  IF i <= Len(moved') THEN backups'[InstallOrder[i]] = origin'[InstallOrder[i]]
               ELSE tree'[InstallOrder[i]] = origin'[InstallOrder[i]]
    <3>1. CASE i = Len(moved) + 1
      <4>1. tree[InstallOrder[i]] = origin[InstallOrder[i]]
        BY <1>1, <2>2, <3>1 DEF Kept
      <4>2. backups'[InstallOrder[i]] = tree[InstallOrder[i]]
        BY <1>1, <1>5, <2>0, <2>1, <3>1
      <4> QED BY <2>0, <2>1, <3>1, <4>1, <4>2
    <3>2. CASE i # Len(moved) + 1
      <4>1. InstallOrder[i] # Following(moved)
        BY <1>4, <2>1, <3>2
      <4>2. /\ tree'[InstallOrder[i]] = tree[InstallOrder[i]]
            /\ backups'[InstallOrder[i]] = backups[InstallOrder[i]]
        BY <1>1, <1>5, <2>0, <4>1
      <4>3. i <= Len(moved') <=> i <= Len(moved)
        BY <1>1, <2>1, <3>2
      <4> QED BY <2>0, <2>2, <4>2, <4>3 DEF Kept
    <3> QED BY <3>1, <3>2
  <2> QED BY <2>0, <2>3 DEF InstallInv, Kept
<1>14. CASE MoveIn
  <2>0. /\ pc = "install" /\ pc' = pc /\ Len(installed) < Len(moved)
        /\ UNCHANGED <<backups, moved, origin>>
        /\ tree' = [tree EXCEPT ![Following(installed)] = replacements[Following(installed)]]
    BY <1>14 DEF MoveIn
  <2>1. Len(installed) < Size
    BY <1>1, <2>0 DEF Prefix
  <2>2. /\ Len(installed) + 1 \in 1..Size
        /\ Following(installed) = InstallOrder[Len(installed) + 1]
    BY <1>1, <2>1, PrefixGrows
  <2>3. Kept
    BY <1>2, <2>0
  <2>4. ASSUME NEW i \in 1..Size, ~(i <= Len(moved))
        PROVE  tree'[InstallOrder[i]] = origin[InstallOrder[i]]
    <3>1. i # Len(installed) + 1
      BY <1>1, <2>0, <2>4
    <3>2. InstallOrder[i] # Following(installed)
      BY <1>4, <2>2, <3>1
    <3>3. tree'[InstallOrder[i]] = tree[InstallOrder[i]]
      BY <1>1, <1>5, <2>0, <3>2
    <3> QED BY <2>3, <2>4, <3>3 DEF Kept
  <2> QED BY <2>0, <2>3, <2>4 DEF InstallInv, Kept
<1>15. CASE InstallFails
  BY <1>7, <1>15 DEF InstallFails, copyVars
<1>16. CASE Verify
  BY <1>7, <1>16 DEF Verify, copyVars
<1>17. CASE Discard
  BY <1>17 DEF Discard, InstallInv
<1>18. CASE UndoInstalled
  <2>0. /\ pc = "undo" /\ pc' = pc /\ installed # << >>
        /\ UNCHANGED <<backups, moved, origin>>
        /\ tree' = [tree EXCEPT ![LastOf(installed)] = None]
    BY <1>18 DEF UndoInstalled, ToRemove, Pending
  <2>1. LastOf(installed) = InstallOrder[Len(installed)] /\ Len(installed) \in 1..Size
    BY <1>1, <2>0, PrefixShrinks
  <2>2. Kept
    BY <1>2, <2>0
  <2>3. ASSUME NEW i \in 1..Size, ~(i <= Len(moved))
        PROVE  tree'[InstallOrder[i]] = origin[InstallOrder[i]]
    <3>1. i # Len(installed)
      BY <1>1, <2>3
    <3>2. InstallOrder[i] # LastOf(installed)
      BY <1>4, <2>1, <3>1
    <3>3. tree'[InstallOrder[i]] = tree[InstallOrder[i]]
      BY <1>1, <1>5, <2>0, <3>2
    <3> QED BY <2>2, <2>3, <3>3 DEF Kept
  <2> QED BY <2>0, <2>2, <2>3 DEF InstallInv, Kept
<1>19. CASE UndoMoved
  <2>0. /\ pc = "undo" /\ pc' = pc /\ moved # << >> /\ moved' = FrontOf(moved)
        /\ origin' = origin
        /\ tree' = [tree EXCEPT ![LastOf(moved)] = backups[LastOf(moved)]]
        /\ backups' = [backups EXCEPT ![LastOf(moved)] = None]
    BY <1>19 DEF UndoMoved, ToRename, Pending
  <2>1. /\ LastOf(moved) = InstallOrder[Len(moved)] /\ Len(moved) \in 1..Size
        /\ Len(moved') = Len(moved) - 1
    BY <1>1, <2>0, PrefixShrinks
  <2>2. Kept
    BY <1>2, <2>0
  <2>3. ASSUME NEW i \in 1..Size
        PROVE  IF i <= Len(moved') THEN backups'[InstallOrder[i]] = origin'[InstallOrder[i]]
               ELSE tree'[InstallOrder[i]] = origin'[InstallOrder[i]]
    <3>1. CASE i = Len(moved)
      <4>1. backups[InstallOrder[i]] = origin[InstallOrder[i]]
        BY <1>1, <2>2, <3>1 DEF Kept
      <4>2. tree'[InstallOrder[i]] = backups[InstallOrder[i]]
        BY <1>1, <1>5, <2>0, <2>1, <3>1
      <4>3. ~(i <= Len(moved'))
        BY <1>1, <2>1, <3>1
      <4> QED BY <2>0, <4>1, <4>2, <4>3
    <3>2. CASE i # Len(moved)
      <4>1. InstallOrder[i] # LastOf(moved)
        BY <1>4, <2>1, <3>2
      <4>2. /\ tree'[InstallOrder[i]] = tree[InstallOrder[i]]
            /\ backups'[InstallOrder[i]] = backups[InstallOrder[i]]
        BY <1>1, <1>5, <2>0, <4>1
      <4>3. i <= Len(moved') <=> i <= Len(moved)
        BY <1>1, <2>1, <3>2
      <4> QED BY <2>0, <2>2, <4>2, <4>3 DEF Kept
    <3> QED BY <3>1, <3>2
  <2> QED BY <2>0, <2>3 DEF InstallInv, Kept
<1>20. CASE UndoEnds
  BY <1>6, <1>20 DEF UndoEnds, Pending
<1>21. CASE ReadManifest
  BY <1>21 DEF ReadManifest, InstallInv
<1>22. CASE KillMutation
  <2>1. CASE pc = "accepted"
    BY <1>22, <2>1 DEF KillMutation, InstallInv
  <2>2. CASE pc # "accepted"
    <3>1. pc \in Early \cup Renaming /\ pc' = "killed" /\ pc # "discard"
      BY <1>22, <2>2 DEF KillMutation, Running, MutationTyped
    <3>2. /\ origin' = origin
          /\ litter' = litter \cup {<<p, backups[p]>> : p \in {q \in Places : backups[q] # None}}
      BY <1>22, <3>1 DEF KillMutation
    <3>3. ASSUME NEW i \in 1..Size, ~(i <= Len(moved))
          PROVE  tree'[InstallOrder[i]] = tree[InstallOrder[i]]
      <4>1. CASE UNCHANGED tree
        BY <4>1
      <4>2. CASE HalfRemoved
        <5>1. PICK stump : tree' = [tree EXCEPT ![LastOf(installed)] = stump]
          BY <4>2, HalfRemovedTyped
        <5>2. LastOf(installed) = InstallOrder[Len(installed)] /\ Len(installed) \in 1..Size
          BY <1>1, <4>2, HalfRemovedTyped, PrefixShrinks
        <5>3. InstallOrder[i] # LastOf(installed)
          BY <1>1, <1>4, <3>3, <5>2
        <5> QED BY <1>1, <1>5, <5>1, <5>3
      <4> QED BY <1>22, <4>1, <4>2 DEF KillMutation
    <3>4. ASSUME NEW p \in Places
          PROVE  origin'[p] \in {None, tree'[p]} \/ <<p, origin'[p]>> \in litter'
      <4>1. PICK i \in 1..Size : p = InstallOrder[i]
        BY OrderFacts
      <4>2. origin[p] = backups[p] \/ origin[p] = tree'[p]
        BY <1>2, <3>1, <3>3, <4>1 DEF Kept
      <4> QED BY <3>2, <4>2
    <3> QED BY <3>1, <3>4 DEF InstallInv, InPlaceOrLitter
  <2> QED BY <2>1, <2>2
<1>23. CASE UndoFails
  <2>1. /\ pc = "undo" /\ moved # << >> /\ backups[LastOf(moved)] = None
    BY <1>23 DEF UndoFails, ToRename, Pending
  <2>2. LastOf(moved) = InstallOrder[Len(moved)] /\ Len(moved) \in 1..Size
    BY <1>1, <2>1, PrefixShrinks
  <2>3. backups[LastOf(moved)] = origin[LastOf(moved)]
    BY <1>1, <1>2, <2>1, <2>2 DEF Kept
  <2>4. origin[LastOf(moved)] # None
    BY <1>0, <1>5, <2>1, <2>2 DEF WholeInv
  <2> QED BY <2>1, <2>3, <2>4
<1> QED BY <1>8, <1>9, <1>10, <1>11, <1>12, <1>13, <1>14, <1>15, <1>16, <1>17, <1>18, <1>19,
          <1>20, <1>21, <1>22, <1>23, NotTorn DEF MutationStep

------------------------------------------------------------------------------
(* What crosses into the job and out of it *)

\* No private name, or gate data shown where nothing is sealed.
Harmless(x) == x.names = {} \/ (x.expose /\ ~SealedSplit)

BoundaryInv ==
  /\ pc = "start" => Harmless(bundle)
  /\ job # None => Harmless(job)
  /\ pc \in {"copy"} \cup Renaming => ~returned.elsewhere
  /\ pc = "discard" => \A p \in RootSet : tree[p] # "foul"

LEMMA BeginBoundary ==
  ASSUME BoundaryInv, Begin
  PROVE  BoundaryInv'
BY DEF Begin, BoundaryInv, Renaming, Harmless

LEMMA MutationStepBoundary ==
  ASSUME MutationTyped, BoundaryInv, MutationStep
  PROVE  BoundaryInv'
<1> USE DEF Renaming
<1>1. ASSUME pc' \notin {"start", "copy"} \cup Renaming, UNCHANGED job PROVE BoundaryInv'
  BY <1>1 DEF BoundaryInv, Harmless
<1>2. ASSUME UNCHANGED <<bundle, returned, job, tree, pc>> PROVE BoundaryInv'
  BY <1>2 DEF BoundaryInv, Harmless
<1>3. ASSUME pc \in {"copy"} \cup Renaming, pc' \in {"install", "undo"},
             UNCHANGED <<returned, job>>
      PROVE  BoundaryInv'
  BY <1>3 DEF BoundaryInv, Harmless
<1>4. CASE PrepareBundle
  <2>1. \E expose \in BOOLEAN : \E left \in {Leaving(names, expose) : names \in SUBSET NamePlaces} :
          IF Admissible(left, expose)
          THEN /\ bundle' = [before |-> tree, manifest |-> manifest,
                             names |-> left, expose |-> expose]
               /\ pc' = "start"
          ELSE pc' = "failed"
    BY <1>4 DEF PrepareBundle, Fail
  <2>2. job' = job
    BY <1>4 DEF PrepareBundle
  <2>3. CASE pc' = "failed"
    BY <1>1, <2>2, <2>3
  <2>4. ASSUME NEW expose, NEW left, Admissible(left, expose), pc' = "start",
               bundle' = [before |-> tree, manifest |-> manifest,
                          names |-> left, expose |-> expose]
        PROVE  BoundaryInv'
    <3>1. left = {} \/ (expose /\ ~SealedSplit)
      BY <2>4 DEF Admissible
    <3>2. bundle'.names = left /\ bundle'.expose = expose
      BY <2>4
    <3> QED BY <2>2, <2>4, <3>1, <3>2 DEF BoundaryInv, Harmless
  <2> QED BY <2>1, <2>3, <2>4
<1>5. CASE StartJob
  <2>1. pc = "start" /\ Harmless(bundle)
    BY <1>5 DEF StartJob, BoundaryInv
  <2>2. CASE Fail /\ UNCHANGED job
    BY <1>1, <2>2 DEF Fail
  <2>3. CASE /\ job' = [number |-> paid + 1, names |-> bundle.names, expose |-> bundle.expose]
             /\ pc' = "harbor"
    <3>1. Harmless(job)'
      BY <2>1, <2>3 DEF Harmless
    <3> QED BY <2>3, <3>1 DEF BoundaryInv, Harmless
  <2> QED BY <1>5, <2>2, <2>3 DEF StartJob
<1>6. CASE RunHarbor
  BY <1>1, <1>6 DEF RunHarbor, Fail
<1>7. CASE CheckReturned
  <2>1. CASE Fail
    BY <1>1, <1>7, <2>1 DEF CheckReturned, Fail
  <2>2. CASE ~ChangedOutside /\ pc' = "copy" /\ UNCHANGED copyVars
    BY <1>7, <2>2 DEF CheckReturned, ChangedOutside, BoundaryInv, Harmless, copyVars
  <2> QED BY <1>7, <2>1, <2>2 DEF CheckReturned
<1>8. CASE CopyReturned
  BY <1>3, <1>8 DEF CopyReturned
<1>9. CASE MoveAside
  BY <1>3, <1>9 DEF MoveAside
<1>10. CASE MoveIn
  BY <1>3, <1>10 DEF MoveIn
<1>11. CASE InstallFails
  BY <1>3, <1>11 DEF InstallFails, copyVars
<1>12. CASE Verify
  <2>1. pc = "install" /\ UNCHANGED <<returned, job, tree>>
    BY <1>12 DEF Verify, copyVars
  <2>2. CASE pc' = "undo"
    BY <1>3, <2>1, <2>2
  <2>3. CASE pc' = "discard" /\ \A p \in RootSet : tree[p] # "foul"
    BY <2>1, <2>3 DEF BoundaryInv, Harmless
  <2> QED BY <1>12, <2>2, <2>3 DEF Verify
<1>13. CASE Discard
  BY <1>1, <1>13 DEF Discard
<1>14. CASE UndoInstalled
  BY <1>3, <1>14 DEF UndoInstalled, ToRemove
<1>15. CASE UndoMoved
  BY <1>3, <1>15 DEF UndoMoved, ToRename
<1>16. CASE UndoEnds
  BY <1>1, <1>16 DEF UndoEnds, Fail
<1>17. CASE ReadManifest
  BY <1>1, <1>17 DEF ReadManifest
<1>18. CASE KillMutation
  BY <1>1, <1>18 DEF KillMutation
<1>19. CASE DiscardFails
  BY <1>3, <1>19 DEF DiscardFails
<1>20. CASE UndoFails
  BY <1>1, <1>20 DEF UndoFails, Fail
<1> QED BY <1>4, <1>5, <1>6, <1>7, <1>8, <1>9, <1>10, <1>11, <1>12, <1>13, <1>14, <1>15,
          <1>16, <1>17, <1>18, <1>19, <1>20 DEF MutationStep

------------------------------------------------------------------------------
(* Types and phases *)

Moves == [stage : StageSet, number : Nat]
StepNames == {"archive", "operator", "install", "after", "commit"}
Verbs == [stage : StageSet \cup {"commit"}, step : StepNames, done : Seq(Moves)]
Worktrees == [RootSet -> Values]

At(step) == verb # None /\ verb.step = step
Working == At("operator") \/ At("install")
MutateWrites == verb.stage = "mutate" /\ ~sandboxed

Typed ==
  /\ MutationTyped
  /\ outputs = [p \in PathSet |-> outputs[p]]
  /\ IsFiniteSet(archived) /\ \A a \in archived : a.path \in PathSet /\ a.number \in Nat
  /\ verb \in {None} \cup Verbs
  /\ verb # None /\ ~At("commit") => verb.stage \in StageSet
  /\ sandboxed \in BOOLEAN /\ edits \in Nat
  /\ committed # None => verb = None
  /\ pc # "idle" => At("operator") /\ MutateWrites
  /\ At("install") => sandboxed
  /\ Working /\ sandboxed => box \in [before : Worktrees, after : Worktrees]

------------------------------------------------------------------------------
(* What the theorems need beside it *)

\* Where an operator works, no output of its stage or of a later one is active.
Cleared ==
  Working =>
    \A p \in PathSet :
      Rank(StageOf[p]) >= Rank(verb.stage) /\ ~(p = "mutate" /\ MutateWrites) => outputs[p] = None

EvidenceInv == Cleared /\ EvidenceIsCurrent

\* Only a mutate directory holds a job, and a verb archives it at most once.
PaidInv ==
  /\ PaidJobsKept
  /\ \A a \in archived : a.path # "mutate" => a.job = None
  /\ At("archive") =>
       \A i \in DOMAIN verb.done : verb.done[i].stage = "mutate" => outputs["mutate"] = None

\* Of a sandboxed session that no hand has touched: both sides of the box are clean.
IsolationInv ==
  sandboxed =>
    /\ paid = 0
    /\ edits = 0 => /\ Clean(Worktree)
                    /\ Working => Clean(box.before)
                    /\ At("install") => Clean(box.after)

Accepts(stage) == outputs[stage] # None /\ outputs[stage].accept

\* What a receipt names was accepted, the last time the stage looked at it.
ReceiptsTrue ==
  /\ Accepts("validate") /\ outputs["validate"].receipt # None =>
       <<"validate", outputs["validate"].receipt>> \in judged
  /\ Accepts("novelty") /\ outputs["novelty_receipt"] # None =>
       <<"novelty", outputs["novelty_receipt"].receipt>> \in judged

\* A verdict that has no receipt yet, on the worktree as it is.
JudgedNow(stage) ==
  /\ outputs[stage] = [by |-> outputs[stage].by, accept |-> outputs[stage].accept, receipt |-> None]
  /\ outputs[stage].accept => <<stage, Worktree>> \in judged

AdmissionInv ==
  /\ ReceiptsTrue
  /\ At("after") /\ verb.stage \in {"validate", "novelty"} => JudgedNow(verb.stage)
  /\ At("commit") => \A s \in Admissions : <<s, Worktree>> \in judged
  /\ Working /\ sandboxed => box.before = Worktree
  /\ CommittedWasAdmitted

------------------------------------------------------------------------------
(* Stages, paths and attempt numbers *)

LEMMA StageFacts ==
  /\ StageSet = {"select", "rollout", "analyze", "mutate", "validate", "novelty"}
  /\ Rank("select") = 1 /\ Rank("rollout") = 2 /\ Rank("analyze") = 3
  /\ Rank("mutate") = 4 /\ Rank("validate") = 5 /\ Rank("novelty") = 6
<1>1. DOMAIN Stages = 1..6 /\ 1..6 = {1, 2, 3, 4, 5, 6}
  BY DEF Stages
<1>2. /\ Stages[1] = "select" /\ Stages[2] = "rollout" /\ Stages[3] = "analyze"
      /\ Stages[4] = "mutate" /\ Stages[5] = "validate" /\ Stages[6] = "novelty"
  BY DEF Stages
<1>3. StageSet = {"select", "rollout", "analyze", "mutate", "validate", "novelty"}
  BY <1>1, <1>2 DEF StageSet
<1>4. ASSUME NEW k \in 1..6
      PROVE  Rank(Stages[k]) = k
  <2>1. \A i \in 1..6 : Stages[i] = Stages[k] => i = k
    BY <1>1, <1>2
  <2> QED BY <1>1, <2>1 DEF Rank
<1> QED BY <1>1, <1>2, <1>3, <1>4

LEMMA PathFacts ==
  /\ DOMAIN Paths = 1..8
  /\ PathSet = {"parents", "rollout", "analyze", "feedback", "mutate", "validate", "novelty",
                "novelty_receipt"}
  /\ \A p \in PathSet : StageOf[p] \in StageSet /\ (StageOf[p] = "mutate" <=> p = "mutate")
<1>1. DOMAIN Paths = 1..8 /\ 1..8 = {1, 2, 3, 4, 5, 6, 7, 8}
  BY DEF Paths
<1>2. /\ Paths[1] = "parents" /\ Paths[2] = "rollout" /\ Paths[3] = "analyze"
      /\ Paths[4] = "feedback" /\ Paths[5] = "mutate" /\ Paths[6] = "validate"
      /\ Paths[7] = "novelty" /\ Paths[8] = "novelty_receipt"
  BY DEF Paths
<1>3. PathSet = {"parents", "rollout", "analyze", "feedback", "mutate", "validate", "novelty",
                 "novelty_receipt"}
  BY <1>1, <1>2 DEF PathSet
<1> QED BY <1>1, <1>3, StageFacts DEF StageOf

LEMMA LeastNumber ==
  ASSUME NEW S \in SUBSET Nat, S # {}
  PROVE  \E x \in S : \A y \in S : x <= y
<1>1. PICK x \in S : \A y \in S : ~(<<y, x>> \in OpToRel(<, Nat))
  BY WFMin, NatLessThanWellFounded
<1>2. \A y \in S : ~(y < x)
  BY <1>1 DEF OpToRel
<1> QED BY <1>2

\* What is archived next is an active output of the stage or of a later one.
LEMMA FirstStaleFacts ==
  ASSUME NEW stage, Stale(stage) # {}
  PROVE  /\ Paths[FirstStale(stage)] \in PathSet /\ outputs[Paths[FirstStale(stage)]] # None
         /\ Rank(StageOf[Paths[FirstStale(stage)]]) >= Rank(stage)
<1>1. Stale(stage) \in SUBSET Nat
  BY PathFacts DEF Stale
<1>2. FirstStale(stage) \in Stale(stage)
  BY <1>1, LeastNumber DEF FirstStale
<1> QED BY <1>2 DEF Stale, PathSet

\* Once nothing is stale, no output of the stage or of a later one is active.
LEMMA NothingStale ==
  ASSUME NEW stage, Stale(stage) = {}, NEW p \in PathSet, Rank(StageOf[p]) >= Rank(stage)
  PROVE  outputs[p] = None
BY DEF Stale, PathSet

\* A finite set leaves one of as many numbers, and one more, free.
LEMMA FreshNumber ==
  ASSUME NEW U, IsFiniteSet(U)
  PROVE  \E n \in 1..(Cardinality(U) + 1) : n \notin U /\ \A m \in 1..(n - 1) : m \in U
<1>1. PICK k \in Nat : k = Cardinality(U) + 1
  BY FS_CardinalityType
<1>2. IsFiniteSet(1..k) /\ Cardinality(1..k) = k
  BY FS_Interval
<1> DEFINE S == (1..k) \ U
<1>3. S \in SUBSET Nat
  OBVIOUS
<1>4. S # {}
  <2>1. ASSUME S = {} PROVE FALSE
    <3>1. 1..k \in SUBSET U
      BY <1>3, <2>1
    <3>2. Cardinality(1..k) <= Cardinality(U)
      BY <3>1, FS_Subset
    <3> QED BY <1>1, <1>2, <3>2, FS_CardinalityType
  <2> QED BY <2>1
<1>5. PICK n \in S : \A y \in S : n <= y
  BY <1>3, <1>4, LeastNumber
<1>6. n \in 1..k /\ n \notin U
  BY <1>3
<1>7. \A m \in 1..(n - 1) : m \in U
  <2> TAKE m \in 1..(n - 1)
  <2>1. m \in 1..k /\ ~(n <= m)
    BY <1>6
  <2> QED BY <1>3, <1>5, <2>1
<1> QED BY <1>1, <1>6, <1>7

\* The attempt number, when the stage has archived nothing yet in this invocation, is
\* one that no attempt of the stage has.
LEMMA AttemptNumberFacts ==
  ASSUME Typed, At("archive"), NEW stage \in StageSet
  PROVE  /\ AttemptNumber(stage) \in Nat
         /\ (\A i \in DOMAIN verb.done : verb.done[i].stage # stage) =>
              \A a \in archived : StageOf[a.path] = stage => a.number # AttemptNumber(stage)
<1> DEFINE attempts == {b \in archived : StageOf[b.path] = stage}
           used == {a.number : a \in attempts}
           mine == {d.number : d \in {verb.done[i] : i \in DOMAIN verb.done} \cap [stage : {stage}, number : Nat]}
<1>1. IsFiniteSet(used)
  <2>1. IsFiniteSet(attempts)
    BY FS_Subset DEF Typed
  <2>2. [a \in attempts |-> a.number] \in Surjection(attempts, used)
    BY DEF Surjection
  <2> QED BY <2>1, <2>2, FS_Surjection
<1>2. \E n \in 1..(Cardinality(used) + 1) : n \notin used /\ \A m \in 1..(n - 1) : m \in used
  BY <1>1, FreshNumber
<1>3. AttemptNumber(stage) = IF mine # {} THEN CHOOSE n \in mine : TRUE
                             ELSE CHOOSE n \in 1..(Cardinality(used) + 1) :
                                    n \notin used /\ \A m \in 1..(n - 1) : m \in used
  BY DEF AttemptNumber
<1>4. CASE mine # {}
  <2>1. AttemptNumber(stage) \in mine
    BY <1>3, <1>4
  <2>2. PICK d \in {verb.done[i] : i \in DOMAIN verb.done} \cap [stage : {stage}, number : Nat] :
          AttemptNumber(stage) = d.number
    BY <2>1
  <2>3. \E i \in DOMAIN verb.done : verb.done[i].stage = stage
    BY <2>2
  <2> QED BY <2>2, <2>3
<1>5. CASE mine = {}
  <2>1. /\ AttemptNumber(stage) \in 1..(Cardinality(used) + 1)
        /\ AttemptNumber(stage) \notin used
    BY <1>2, <1>3, <1>5
  <2>2. Cardinality(used) \in Nat
    BY <1>1, FS_CardinalityType
  <2>3. \A a \in archived : StageOf[a.path] = stage => a.number \in used
    OBVIOUS
  <2> QED BY <2>1, <2>2, <2>3
<1> QED BY <1>4, <1>5

------------------------------------------------------------------------------
(* Every step keeps the types *)

LEMMA WorktreeTyped ==
  ASSUME tree \in [Places -> Values]
  PROVE  Worktree \in Worktrees /\ Worktree # None
<1>1. Worktree \in Worktrees
  BY DEF Worktree, Worktrees, Places
<1> QED BY <1>1, WorktreeAssumption DEF Worktrees, Values

\* A verb that goes on to another step is still that verb.
LEMMA VerbStep ==
  ASSUME Typed, verb # None, NEW step \in StepNames
  PROVE  LET next == [verb EXCEPT !.step = step]
         IN  next \in Verbs /\ next # None /\ next.step = step /\ next.stage = verb.stage
             /\ next.done = verb.done
<1>1. verb \in Verbs
  BY DEF Typed
<1>2. \A v \in Verbs : v # None
  BY WorktreeAssumption DEF Verbs, StepNames, Moves
<1>3. [verb EXCEPT !.step = step] \in Verbs
  BY <1>1 DEF Verbs
<1> QED BY <1>1, <1>2, <1>3 DEF Verbs

LEMMA NewVerb ==
  ASSUME NEW stage \in StageSet \cup {"commit"}, NEW step \in StepNames
  PROVE  LET next == [stage |-> stage, step |-> step, done |-> << >>]
         IN  next \in Verbs /\ next # None
<1>1. << >> \in Seq(Moves)
  BY EmptySeq
<1>2. [stage |-> stage, step |-> step, done |-> << >>] \in Verbs
  BY <1>1 DEF Verbs
<1> QED BY <1>2, WorktreeAssumption DEF Verbs, StepNames, Moves

\* What the agent's verbs leave alone of the mutate run, when it is at rest.
LEMMA MutationRests ==
  ASSUME MutationTyped, UNCHANGED <<pc, copyVars, origin, paid, job>>, pc \notin Renaming,
         tree' \in [Places -> Values]
  PROVE  MutationTyped'
BY DEF MutationTyped, copyVars

LEMMA MutationUnchanged ==
  ASSUME MutationTyped, UNCHANGED mutationVars
  PROVE  MutationTyped'
BY DEF MutationTyped, mutationVars, copyVars

LEMMA MutationToIdle ==
  ASSUME MutationTyped, pc \in Resting, Forget,
         UNCHANGED <<tree, copyVars, paid, job>>
  PROVE  MutationTyped'
BY NothingTyped DEF MutationTyped, Forget, copyVars, Resting, Renaming, Early

LEMMA InitTyped == Init => Typed
<1> SUFFICES ASSUME Init PROVE Typed
  OBVIOUS
<1>1. MutationTyped
  BY MutationInitTyped DEF Init
<1>2. IsFiniteSet(archived)
  BY FS_EmptySet DEF Init
<1>3. pc = "idle" /\ verb = None /\ committed = None
  BY DEF Init, MutationInit
<1> QED BY <1>1, <1>2, <1>3 DEF Init, Typed, At, Working

\* An operator's outputs stand in their places.
LEMMA LeavesTyped ==
  ASSUME outputs = [p \in PathSet |-> outputs[p]], NEW t, Leaves(t)
  PROVE  outputs' = [p \in PathSet |-> outputs'[p]]
BY DEF Leaves

\* The mutate run moves only when it runs.
LEMMA MutationStepRuns == MutationStep => pc # "idle"
<1>1. UndoFails \/ UndoInstalled \/ UndoMoved => pc = "undo"
  BY DEF UndoFails, UndoInstalled, UndoMoved, HalfRemoved, ToRemove, ToRename
<1>2. KillMutation => pc # "idle"
  BY DEF KillMutation, Running, Resting
<1> QED BY <1>1, <1>2 DEF MutationStep, PrepareBundle, StartJob, RunHarbor, CheckReturned,
       CopyReturned, MoveAside, MoveIn, InstallFails, Verify, Discard, DiscardFails, UndoEnds,
       ReadManifest

LEMMA StepTyped ==
  ASSUME Typed, [Next]_vars
  PROVE  Typed'
<1> USE DEF Resting
<1>1. /\ MutationTyped /\ outputs = [p \in PathSet |-> outputs[p]]
      /\ IsFiniteSet(archived) /\ \A a \in archived : a.path \in PathSet /\ a.number \in Nat
      /\ verb \in {None} \cup Verbs /\ sandboxed \in BOOLEAN /\ edits \in Nat
      /\ tree \in [Places -> Values]
  BY DEF Typed, MutationTyped
<1>2. /\ verb # None /\ ~At("commit") => verb.stage \in StageSet
      /\ committed # None => verb = None
      /\ pc # "idle" => At("operator") /\ MutateWrites
      /\ At("install") => sandboxed
      /\ Working /\ sandboxed => box \in [before : Worktrees, after : Worktrees]
  BY DEF Typed
<1>3. ~At("operator") => pc = "idle"
  BY <1>2
<1>4. CASE \E stage \in StageSet : Invoke(stage)
  <2>1. PICK stage \in StageSet : Invoke(stage)
    BY <1>4
  <2>2. /\ verb = None /\ committed = None
        /\ UNCHANGED <<mutationVars, outputs, archived, committed, sandboxed, edits>>
        /\ verb' = [stage |-> stage, step |-> "archive", done |-> << >>]
    BY <2>1 DEF Invoke, boxVars
  <2>3. verb' \in Verbs /\ verb' # None
    BY <2>2, NewVerb DEF StepNames
  <2>4. MutationTyped'
    BY <1>1, <2>2, MutationUnchanged
  <2>5. pc' = "idle"
    BY <1>3, <2>2 DEF At, mutationVars
  <2> QED BY <1>1, <2>2, <2>3, <2>4, <2>5 DEF Typed, At, Working
<1>5. CASE ArchiveOne
  <2> DEFINE path == Paths[FirstStale(verb.stage)]
             number == AttemptNumber(StageOf[path])
  <2>1. /\ verb # None /\ verb.step = "archive" /\ Stale(verb.stage) # {}
        /\ archived' = {a \in archived : ~(a.path = path /\ a.number = number)}
                        \cup {[path |-> path, number |-> number,
                               job |-> IF path = "mutate" THEN job ELSE None]}
        /\ outputs' = [outputs EXCEPT ![path] = None]
        /\ job' = IF path = "mutate" THEN None ELSE job
        /\ verb' = [verb EXCEPT !.done = Append(@, [stage |-> StageOf[path], number |-> number])]
        /\ UNCHANGED <<pc, tree, manifest, copyVars, origin, paid, committed, sandboxed, edits>>
    BY <1>5 DEF ArchiveOne, boxVars
  <2>2. path \in PathSet /\ StageOf[path] \in StageSet
    BY <2>1, FirstStaleFacts, PathFacts
  <2>3. number \in Nat
    BY <2>1, <2>2, AttemptNumberFacts DEF At
  <2>4. verb \in Verbs /\ verb.stage \in StageSet
    BY <1>1, <1>2, <2>1 DEF At
  <2>5. verb' \in Verbs /\ verb' # None /\ verb'.step = "archive" /\ verb'.stage = verb.stage
    <3>1. [stage |-> StageOf[path], number |-> number] \in Moves
      BY <2>2, <2>3 DEF Moves
    <3>2. Append(verb.done, [stage |-> StageOf[path], number |-> number]) \in Seq(Moves)
      BY <2>4, <3>1, AppendProperties DEF Verbs
    <3>3. verb' \in Verbs /\ verb'.step = "archive" /\ verb'.stage = verb.stage
      BY <2>1, <2>4, <3>2 DEF Verbs
    <3> QED BY <3>3, WorktreeAssumption DEF Verbs, StepNames, Moves
  <2>6. IsFiniteSet(archived') /\ \A a \in archived' : a.path \in PathSet /\ a.number \in Nat
    <3> DEFINE kept == {a \in archived : ~(a.path = path /\ a.number = number)}
               new == [path |-> path, number |-> number,
                       job |-> IF path = "mutate" THEN job ELSE None]
    <3>1. IsFiniteSet(kept)
      BY <1>1, FS_Subset
    <3>2. IsFiniteSet(kept \cup {new})
      BY <3>1, FS_AddElement
    <3>3. new.path = path /\ new.number = number
      OBVIOUS
    <3>4. archived' = kept \cup {new}
      BY <2>1
    <3> HIDE DEF kept, new
    <3>5. \A a \in kept : a.path \in PathSet /\ a.number \in Nat
      BY <1>1 DEF kept
    <3> QED BY <2>2, <2>3, <3>2, <3>3, <3>4, <3>5
  <2>7. MutationTyped'
    <3>1. pc = "idle"
      BY <1>3, <2>1 DEF At
    <3> QED BY <1>1, <2>1, <3>1 DEF MutationTyped, copyVars, Early, Renaming
  <2>8. pc' = "idle" /\ outputs' = [p \in PathSet |-> outputs'[p]]
    BY <1>1, <1>3, <2>1, <2>2 DEF At
  <2> QED BY <1>1, <1>2, <2>1, <2>4, <2>5, <2>6, <2>7, <2>8 DEF Typed, At, Working
<1>6. CASE StartOperator
  <2>1. /\ verb # None /\ verb.step = "archive" /\ verb' = [verb EXCEPT !.step = "operator", !.done = << >>]
        /\ box' = IF sandboxed THEN [before |-> Worktree, after |-> Worktree] ELSE None
        /\ UNCHANGED <<archived, committed, sandboxed, edits>>
        /\ \/ /\ verb.stage = "mutate" /\ ~sandboxed /\ Begin
              /\ outputs' = [outputs EXCEPT !["mutate"] =
                               [by |-> invocations, from |-> outputs[Evidence].by]]
           \/ UNCHANGED <<mutationVars, outputs>>
    BY <1>6 DEF StartOperator
  <2>2. verb \in Verbs /\ verb.stage \in StageSet
    BY <1>1, <1>2, <2>1 DEF At
  <2>3. verb' \in Verbs /\ verb' # None /\ verb'.step = "operator" /\ verb'.stage = verb.stage
    <3>1. << >> \in Seq(Moves)
      BY EmptySeq
    <3>2. verb' \in Verbs /\ verb'.step = "operator" /\ verb'.stage = verb.stage
      BY <2>1, <2>2, <3>1 DEF Verbs, StepNames
    <3> QED BY <3>2, WorktreeAssumption DEF Verbs, StepNames, Moves
  <2>4. MutationTyped'
    BY <1>1, <2>1, BeginTyped, MutationUnchanged
  <2>5. pc' # "idle" => verb.stage = "mutate" /\ ~sandboxed
    BY <1>3, <2>1 DEF At, mutationVars
  <2>6. sandboxed => box' \in [before : Worktrees, after : Worktrees]
    BY <1>1, <2>1, WorktreeTyped
  <2>7. outputs' = [p \in PathSet |-> outputs'[p]]
    BY <1>1, <2>1, PathFacts
  <2> QED BY <1>1, <1>2, <2>1, <2>2, <2>3, <2>4, <2>5, <2>6, <2>7
          DEF Typed, At, Working, MutateWrites
<1>7. CASE OperatorWrites
  <2>1. /\ verb # None /\ verb.step = "operator" /\ verb' = [verb EXCEPT !.step = "after"]
        /\ ~sandboxed /\ verb.stage # "mutate"
        /\ UNCHANGED <<mutationVars, archived, committed, sandboxed, edits>>
    BY <1>7 DEF OperatorWrites, boxVars
  <2>2. verb' \in Verbs /\ verb' # None /\ verb'.step = "after" /\ verb'.stage = verb.stage
    BY <2>1, VerbStep DEF StepNames
  <2>3. outputs' = [p \in PathSet |-> outputs'[p]]
    BY <1>1, <1>7, LeavesTyped DEF OperatorWrites
  <2>4. pc' = "idle" /\ MutationTyped'
    BY <1>1, <1>2, <2>1, MutationUnchanged DEF MutateWrites, mutationVars
  <2> QED BY <1>1, <1>2, <2>1, <2>2, <2>3, <2>4 DEF Typed, At, Working
<1>8. CASE OperatorFails
  <2>1. /\ verb' = None /\ (sandboxed \/ verb.stage # "mutate")
        /\ UNCHANGED <<mutationVars, archived, committed, sandboxed, edits>>
        /\ verb # None
    BY <1>8 DEF OperatorFails
  <2>2. pc' = "idle" /\ MutationTyped'
    BY <1>1, <1>2, <2>1, MutationUnchanged DEF MutateWrites, mutationVars
  <2>3. outputs' = [p \in PathSet |-> outputs'[p]]
    BY <1>1, <1>8, LeavesTyped DEF OperatorFails
  <2> QED BY <1>1, <1>2, <2>1, <2>2, <2>3 DEF Typed, At, Working
<1>9. CASE MutateRuns
  <2>1. MutationTyped' /\ pc # "idle" /\ UNCHANGED proposalVars
    BY <1>1, <1>9, MutationStepTyped, MutationStepRuns DEF MutateRuns
  <2> QED BY <1>1, <1>2, <2>1 DEF Typed, At, Working, MutateWrites, proposalVars, boxVars
<1>10. CASE MutateEnds
  <2>1. /\ verb # None /\ verb' = None /\ Forget /\ pc \in Resting
        /\ UNCHANGED <<tree, copyVars, paid, job, outputs, archived, committed,
                       sandboxed, edits>>
    BY <1>10 DEF MutateEnds, boxVars
  <2>2. MutationTyped' /\ pc' = "idle"
    BY <1>1, <2>1, MutationToIdle DEF Forget
  <2> QED BY <1>1, <1>2, <2>1, <2>2 DEF Typed, At, Working
<1>11. CASE AfterOperator
  <2>1. /\ verb # None /\ verb.step = "after" /\ verb' = None
        /\ UNCHANGED <<mutationVars, archived, committed, sandboxed, edits>>
    BY <1>11 DEF AfterOperator, boxVars
  <2>2. outputs' = [p \in PathSet |-> outputs'[p]]
    BY <1>1, <1>11, PathFacts DEF AfterOperator
  <2>3. pc' = "idle" /\ MutationTyped'
    BY <1>1, <1>3, <2>1, MutationUnchanged DEF At, mutationVars
  <2> QED BY <1>1, <1>2, <2>1, <2>2, <2>3 DEF Typed, At, Working
<1>12. CASE IsolatedEnds
  <2>1. /\ verb # None /\ verb.step = "operator" /\ sandboxed
        /\ UNCHANGED <<mutationVars, outputs, archived, committed, sandboxed, edits>>
    BY <1>12 DEF IsolatedEnds
  <2>2. pc' = "idle" /\ MutationTyped'
    BY <1>1, <1>2, <2>1, MutationUnchanged DEF MutateWrites, mutationVars
  <2>3. PICK after \in IF verb.stage = "mutate" THEN [RootSet -> Contents \cup {None}]
                       ELSE {box.before} :
          IF Forbidden(after) THEN verb' = None /\ box' = None
          ELSE verb' = [verb EXCEPT !.step = "install"] /\ box' = [box EXCEPT !.after = after]
    BY <1>12 DEF IsolatedEnds
  <2>4. box \in [before : Worktrees, after : Worktrees]
    BY <1>2, <2>1 DEF At, Working
  <2>5. after \in Worktrees
    BY <2>3, <2>4 DEF Worktrees, Values
  <2>6. CASE verb' = None
    BY <1>1, <1>2, <2>1, <2>2, <2>6 DEF Typed, At, Working
  <2>7. CASE verb' = [verb EXCEPT !.step = "install"] /\ box' = [box EXCEPT !.after = after]
    <3>1. verb' \in Verbs /\ verb' # None /\ verb'.step = "install" /\ verb'.stage = verb.stage
      BY <2>1, <2>7, VerbStep DEF StepNames
    <3>2. box' \in [before : Worktrees, after : Worktrees]
      BY <2>4, <2>5, <2>7
    <3> QED BY <1>1, <1>2, <2>1, <2>2, <3>1, <3>2 DEF Typed, At, Working
  <2> QED BY <2>3, <2>6, <2>7
<1>13. CASE InstallChange
  <2>1. /\ verb # None /\ verb.step = "install"
        /\ UNCHANGED <<pc, manifest, copyVars, job, origin, paid, outputs, archived, committed,
                       sandboxed, edits>>
    BY <1>13 DEF InstallChange
  <2>2. pc = "idle" /\ sandboxed
    BY <1>2, <1>3, <2>1 DEF At
  <2>3. box \in [before : Worktrees, after : Worktrees]
    BY <1>2, <2>1, <2>2 DEF At, Working
  <2>4. PICK p \in RootSet :
          IF box.after[p] = None /\ tree[p] = None
          THEN verb' = None /\ box' = None /\ UNCHANGED tree
          ELSE /\ tree' = [tree EXCEPT ![p] = box.after[p]]
               /\ box' = [box EXCEPT !.before[p] = box.after[p]]
               /\ UNCHANGED verb
    BY <1>13 DEF InstallChange
  <2>5. tree' \in [Places -> Values]
    <3>1. box.after[p] \in Values /\ p \in Places
      BY <2>3 DEF Worktrees, Places
    <3> QED BY <1>1, <2>4, <3>1, PlaceSet
  <2>6. MutationTyped'
    BY <1>1, <2>1, <2>2, <2>5, MutationRests DEF Renaming
  <2>7. CASE verb' = None
    BY <1>1, <1>2, <2>1, <2>2, <2>6, <2>7 DEF Typed, At, Working
  <2>8. CASE verb' = verb /\ box' = [box EXCEPT !.before[p] = box.after[p]]
    <3>1. box' \in [before : Worktrees, after : Worktrees]
      BY <2>3, <2>8 DEF Worktrees
    <3> QED BY <1>1, <1>2, <2>1, <2>2, <2>6, <2>8, <3>1 DEF Typed, At, Working
  <2> QED BY <2>4, <2>7, <2>8
<1>14. CASE InstallArtifacts
  <2>1. /\ verb # None /\ verb.step = "install"
        /\ UNCHANGED <<mutationVars, archived, committed, sandboxed, edits>>
        /\ \/ Leaves(box.before) /\ verb' = [verb EXCEPT !.step = "after"]
           \/ Leaves(box.before) /\ verb' = None
           \/ UNCHANGED outputs /\ verb' = None
    BY <1>14 DEF InstallArtifacts
  <2>2. outputs' = [p \in PathSet |-> outputs'[p]]
    BY <1>1, <2>1, LeavesTyped
  <2>3. pc' = "idle" /\ MutationTyped'
    BY <1>1, <1>3, <2>1, MutationUnchanged DEF At, mutationVars
  <2>4. CASE verb' = None
    BY <1>1, <1>2, <2>1, <2>2, <2>3, <2>4 DEF Typed, At, Working
  <2>5. CASE verb' = [verb EXCEPT !.step = "after"]
    <3>1. verb' \in Verbs /\ verb' # None /\ verb'.step = "after" /\ verb'.stage = verb.stage
      BY <2>1, <2>5, VerbStep DEF StepNames
    <3> QED BY <1>1, <1>2, <2>1, <2>2, <2>3, <3>1 DEF Typed, At, Working
  <2> QED BY <2>1, <2>4, <2>5
<1>15. CASE Admit
  <2>1. /\ verb = None /\ committed = None
        /\ UNCHANGED <<mutationVars, outputs, archived, committed, sandboxed, edits>>
        /\ verb' = [stage |-> "commit", step |-> "commit", done |-> << >>]
    BY <1>15 DEF Admit, boxVars
  <2>2. verb' \in Verbs /\ verb' # None /\ verb'.step = "commit"
    BY <2>1, NewVerb DEF StepNames
  <2>3. pc' = "idle" /\ MutationTyped'
    BY <1>1, <1>3, <2>1, MutationUnchanged DEF At, mutationVars
  <2> QED BY <1>1, <2>1, <2>2, <2>3 DEF Typed, At, Working
<1>16. CASE Commit
  <2>1. /\ verb # None /\ verb.step = "commit" /\ verb' = None
        /\ UNCHANGED <<mutationVars, outputs, archived, sandboxed, edits>>
    BY <1>16 DEF Commit, boxVars
  <2>2. pc' = "idle" /\ MutationTyped'
    BY <1>1, <1>3, <2>1, MutationUnchanged DEF At, mutationVars
  <2> QED BY <1>1, <2>1, <2>2 DEF Typed, At, Working
<1>17. CASE Edit
  <2>1. /\ ~Running /\ edits' = edits + 1 /\ committed' = committed
        /\ UNCHANGED <<pc, copyVars, job, origin, paid, outputs, archived, verb, boxVars>>
    BY <1>17 DEF Edit
  <2>2. tree' \in [Places -> Values]
    <3>1. PICK p \in RootSet, c \in Contents : tree' = [tree EXCEPT ![p] = c]
      BY <1>17 DEF Edit
    <3>2. p \in Places /\ c \in Values
      BY DEF Places, Values
    <3> QED BY <1>1, <3>1, <3>2, PlaceSet
  <2>3. MutationTyped'
    BY <1>1, <2>1, <2>2, MutationRests DEF Running, Renaming
  <2> QED BY <1>1, <1>2, <2>1, <2>3 DEF Typed, At, Working, MutateWrites, boxVars
<1>18. CASE Kill
  <2>1. /\ verb # None /\ ~Running /\ verb' = None /\ Forget
        /\ UNCHANGED <<tree, copyVars, job, paid, outputs, archived, committed,
                       sandboxed, edits>>
    BY <1>18 DEF Kill
  <2>2. MutationTyped' /\ pc' = "idle"
    BY <1>1, <2>1, MutationToIdle DEF Running, Forget
  <2> QED BY <1>1, <1>2, <2>1, <2>2 DEF Typed, At, Working
<1>19. CASE UNCHANGED vars
  <2>1. MutationTyped' /\ UNCHANGED <<mutationVars, proposalVars>>
    BY <1>1, <1>19, MutationUnchanged DEF vars
  <2> QED BY <1>1, <1>2, <2>1
          DEF Typed, At, Working, MutateWrites, mutationVars, proposalVars, boxVars
<1> QED BY <1>4, <1>5, <1>6, <1>7, <1>8, <1>9, <1>10, <1>11, <1>12, <1>13, <1>14, <1>15,
          <1>16, <1>17, <1>18, <1>19 DEF Next

LEMMA TypesHold == Spec => []Typed
BY InitTyped, StepTyped, PTL DEF Spec

------------------------------------------------------------------------------
(* The mutate run inside the worktree's life *)

\* What a step of the worktree's life is for the mutate run.
LEMMA StepKinds ==
  ASSUME Typed, [Next]_vars
  PROVE  \/ MutationStep
         \/ Begin
         \/ UNCHANGED mutationVars
         \/ pc' = "idle" /\ job' \in {None, job}
         \/ Edit /\ EditDuringVerbs
<1>1. pc # "idle" => At("operator") /\ MutateWrites
  BY DEF Typed
<1>2. CASE \E stage \in StageSet : Invoke(stage)
  BY <1>2 DEF Invoke
<1>3. CASE ArchiveOne
  BY <1>1, <1>3 DEF ArchiveOne, At
<1>4. CASE StartOperator
  BY <1>4 DEF StartOperator
<1>5. CASE OperatorWrites \/ OperatorFails \/ AfterOperator \/ IsolatedEnds \/ InstallArtifacts
  BY <1>5 DEF OperatorWrites, OperatorFails, AfterOperator, IsolatedEnds, InstallArtifacts
<1>6. CASE MutateRuns
  BY <1>6 DEF MutateRuns
<1>7. CASE MutateEnds
  BY <1>7 DEF MutateEnds, Forget
<1>8. CASE InstallChange
  BY <1>1, <1>8 DEF InstallChange, At
<1>9. CASE Admit \/ Commit
  BY <1>9 DEF Admit, Commit
<1>10. CASE Edit
  BY <1>1, <1>10 DEF Edit, At
<1>11. CASE Kill
  BY <1>11 DEF Kill, Forget
<1>12. CASE UNCHANGED vars
  BY <1>12 DEF vars
<1> QED BY <1>2, <1>3, <1>4, <1>5, <1>6, <1>7, <1>8, <1>9, <1>10, <1>11, <1>12 DEF Next

\* A mutate run that raises leaves the checkout and the generation's artifacts as it
\* found them, and one that is killed leaves the old content of every place in that place
\* or in a backup - unless an exception or a kill met the removal of the backups, or an
\* exception the undo (harbor._install_bundle) - for any editable roots, when no hand
\* edits the worktree under a running verb.
THEOREM InstallsAreAtomic ==
  ASSUME ~EditDuringVerbs
  PROVE  Spec => []InstallIsAtomic
<1>1. Init => InstallInv /\ WholeInv
  BY DEF Init, MutationInit, InstallInv, WholeInv, Early, Renaming
<1>2. Typed /\ InstallInv /\ WholeInv /\ [Next]_vars => InstallInv' /\ WholeInv'
  <2> SUFFICES ASSUME Typed, InstallInv, WholeInv, [Next]_vars PROVE InstallInv' /\ WholeInv'
    OBVIOUS
  <2>1. MutationTyped
    BY DEF Typed
  <2>2. CASE MutationStep
    BY <2>1, <2>2, MutationStepKept, MutationStepWhole
  <2>3. CASE Begin
    BY <2>1, <2>3, BeginKept, BeginWhole
  <2>4. CASE UNCHANGED mutationVars
    BY <2>4 DEF InstallInv, WholeInv, Kept, InPlaceOrLitter, mutationVars, copyVars
  <2>5. CASE pc' = "idle"
    BY <2>5 DEF InstallInv, WholeInv, Early, Renaming
  <2> QED BY <2>2, <2>3, <2>4, <2>5, StepKinds
<1>3. Typed /\ InstallInv => InstallIsAtomic
  <2> SUFFICES ASSUME Typed, InstallInv PROVE RolledBack /\ NothingLost
    BY DEF InstallIsAtomic
  <2>1. MutationTyped
    BY DEF Typed
  <2>2. RolledBack
    <3>1. pc = "failed" /\ ~torn => Kept /\ moved = << >>
      BY <2>1 DEF InstallInv, MutationTyped, Renaming
    <3> QED BY <2>1, <3>1, KeptIsOrigin DEF RolledBack
  <2>3. CASE pc = "killed"
    BY <2>2, <2>3 DEF InstallInv, InPlaceOrLitter, NothingLost
  <2>4. CASE pc \in Early \cup Renaming \cup {"failed"}
    <3>1. ~torn => Kept
      BY <2>4 DEF InstallInv
    <3>2. ASSUME ~torn, NEW p \in Places PROVE origin[p] \in {None, tree[p], backups[p]}
      <4>1. PICK i \in 1..Size : p = InstallOrder[i]
        BY OrderFacts
      <4> QED BY <3>1, <3>2, <4>1 DEF Kept
    <3> QED BY <2>2, <3>2 DEF NothingLost
  <2>5. CASE pc \in {"idle", "accepted", "ok", "unread"}
    BY <2>2, <2>5 DEF NothingLost
  <2> QED BY <2>1, <2>3, <2>4, <2>5 DEF MutationTyped, Resting
<1> QED BY <1>1, <1>2, <1>3, TypesHold, PTL DEF Spec

------------------------------------------------------------------------------
(* The boundary of the paid job and of the sandbox *)

LEMMA IsolationStep ==
  ASSUME Typed, IsolationInv, [Next]_vars
  PROVE  IsolationInv'
<1> SUFFICES ASSUME sandboxed' PROVE IsolationInv'
  BY DEF IsolationInv
<1>1. sandboxed' = sandboxed
  BY DEF Next, Invoke, ArchiveOne, StartOperator, OperatorWrites, OperatorFails, MutateRuns,
     MutateEnds, AfterOperator, IsolatedEnds, InstallChange, InstallArtifacts, Admit, Commit,
     Edit, Kill, vars, proposalVars, boxVars
<1>2. /\ sandboxed /\ pc = "idle" /\ paid = 0 /\ edits \in Nat
      /\ edits = 0 => /\ Clean(Worktree)
                      /\ Working => Clean(box.before)
                      /\ At("install") => Clean(box.after)
  BY <1>1 DEF IsolationInv, Typed, MutateWrites
<1>3. ~MutationStep
  BY <1>2, MutationStepRuns
<1>4. ASSUME UNCHANGED <<tree, paid, edits>>, ~Working' PROVE IsolationInv'
  BY <1>2, <1>4 DEF IsolationInv, Worktree, Clean, Working
<1>5. ASSUME UNCHANGED <<tree, paid, edits, verb, box>> PROVE IsolationInv'
  BY <1>2, <1>5 DEF IsolationInv, Worktree, Clean, Working, At
<1>6. CASE \E stage \in StageSet : Invoke(stage)
  <2>1. PICK stage \in StageSet : Invoke(stage)
    BY <1>6
  <2> QED BY <1>4, <2>1 DEF Invoke, Working, At, mutationVars
<1>7. CASE ArchiveOne
  <2>1. verb \in Verbs
    BY <1>7 DEF Typed, ArchiveOne
  <2>2. ~Working'
    BY <1>7, <2>1 DEF ArchiveOne, Working, At, Verbs
  <2> QED BY <1>4, <1>7, <2>2 DEF ArchiveOne
<1>8. CASE StartOperator
  <2>1. box' = [before |-> Worktree, after |-> Worktree] /\ UNCHANGED <<tree, paid, edits>>
    BY <1>2, <1>8 DEF StartOperator, mutationVars
  <2> QED BY <1>2, <2>1 DEF IsolationInv, Worktree, Clean
<1>9. CASE OperatorWrites \/ MutateEnds
  BY <1>2, <1>9 DEF OperatorWrites, MutateEnds
<1>10. CASE OperatorFails \/ AfterOperator \/ Commit \/ Kill
  <2>1. verb' = None /\ UNCHANGED <<tree, paid, edits>>
    BY <1>10 DEF OperatorFails, AfterOperator, Commit, Kill, mutationVars
  <2> QED BY <1>4, <2>1 DEF Working, At
<1>11. CASE MutateRuns
  BY <1>3, <1>11 DEF MutateRuns
<1>12. CASE IsolatedEnds
  <2>1. /\ Working /\ UNCHANGED <<tree, paid, edits>>
    BY <1>12 DEF IsolatedEnds, Working, At, mutationVars
  <2>2. box \in [before : Worktrees, after : Worktrees]
    BY <1>2, <2>1 DEF Typed
  <2>3. PICK after : IF Forbidden(after) THEN verb' = None /\ box' = None
                     ELSE verb' = [verb EXCEPT !.step = "install"] /\ box' = [box EXCEPT !.after = after]
    BY <1>12 DEF IsolatedEnds
  <2>4. CASE Forbidden(after)
    BY <1>4, <2>1, <2>3, <2>4 DEF Working, At
  <2>5. CASE ~Forbidden(after)
    <3>1. box'.before = box.before /\ box'.after = after
      BY <2>2, <2>3, <2>5
    <3>2. Clean(box.before) => Clean(after)
      BY <2>5 DEF Clean, Forbidden
    <3>3. edits' = 0 => Clean(box'.before) /\ Clean(box'.after) /\ Clean(Worktree)'
      BY <1>2, <2>1, <3>1, <3>2 DEF Clean, Worktree
    <3> QED BY <1>2, <2>1, <3>3 DEF IsolationInv, Clean
  <2> QED BY <2>4, <2>5
<1>13. CASE InstallChange
  <2>1. Working /\ At("install") /\ UNCHANGED <<paid, edits>>
    BY <1>13 DEF InstallChange, Working, At
  <2>2. box \in [before : Worktrees, after : Worktrees] /\ tree \in [Places -> Values]
    BY <1>2, <2>1 DEF Typed, MutationTyped
  <2>3. PICK p \in RootSet :
          IF box.after[p] = None /\ tree[p] = None
          THEN verb' = None /\ box' = None /\ UNCHANGED tree
          ELSE /\ tree' = [tree EXCEPT ![p] = box.after[p]]
               /\ box' = [box EXCEPT !.before[p] = box.after[p]]
               /\ UNCHANGED verb
    BY <1>13 DEF InstallChange
  <2>4. CASE verb' = None /\ UNCHANGED tree
    BY <1>4, <2>1, <2>4 DEF Working, At
  <2>5. CASE /\ tree' = [tree EXCEPT ![p] = box.after[p]]
             /\ box' = [box EXCEPT !.before[p] = box.after[p]]
    <3>1. ASSUME edits = 0
          PROVE  Clean(Worktree)' /\ Clean(box'.before) /\ Clean(box'.after)
      <4>1. Clean(Worktree) /\ Clean(box.before) /\ Clean(box.after)
        BY <1>2, <2>1, <3>1
      <4>2. Clean(Worktree)'
        BY <2>2, <2>5, <4>1 DEF Clean, Worktree
      <4>3. Clean(box'.before) /\ Clean(box'.after)
        BY <2>2, <2>5, <4>1 DEF Clean, Worktrees
      <4> QED BY <4>2, <4>3
    <3> QED BY <1>2, <2>1, <3>1 DEF IsolationInv, Clean
  <2> QED BY <2>3, <2>4, <2>5
<1>14. CASE InstallArtifacts
  <2>1. /\ verb # None /\ UNCHANGED <<tree, paid, edits>>
        /\ verb' = None \/ verb' = [verb EXCEPT !.step = "after"]
    BY <1>14 DEF InstallArtifacts, mutationVars
  <2>2. ~Working'
    BY <2>1 DEF Working, At, Typed, Verbs
  <2> QED BY <1>4, <2>1, <2>2
<1>15. CASE Admit
  BY <1>4, <1>15 DEF Admit, Working, At, mutationVars
<1>16. CASE Edit
  BY <1>2, <1>16 DEF Edit, IsolationInv
<1>17. CASE UNCHANGED vars
  BY <1>5, <1>17 DEF vars, mutationVars, proposalVars, boxVars
<1> QED BY <1>6, <1>7, <1>8, <1>9, <1>10, <1>11, <1>12, <1>13, <1>14, <1>15, <1>16, <1>17
        DEF Next

\* No paid job is sent out with the name of a gate or sealed task unless gate data may be
\* shown, what the agent brings back is installed only where the surface allows it, and
\* in a sandboxed session no operator pays or leaves a forbidden change
\* (harbor._prepare_bundle, _install_bundle, operator_isolation.run_isolated_operator).
THEOREM BoundaryAlwaysHolds == Spec => []BoundaryHolds
<1>1. Init => BoundaryInv /\ IsolationInv
  <2> SUFFICES ASSUME Init PROVE BoundaryInv /\ IsolationInv
    OBVIOUS
  <2>1. /\ pc = "idle" /\ job = None /\ paid = 0 /\ verb = None
        /\ tree = [p \in Places |-> "base"]
    BY DEF Init, MutationInit
  <2>2. Clean(Worktree)
    BY <2>1 DEF Clean, Worktree, Places
  <2> QED BY <2>1, <2>2 DEF BoundaryInv, Renaming, IsolationInv, Working, At
<1>2. Typed /\ BoundaryInv /\ [Next]_vars => BoundaryInv'
  <2> SUFFICES ASSUME Typed, BoundaryInv, [Next]_vars PROVE BoundaryInv'
    OBVIOUS
  <2>1. MutationTyped
    BY DEF Typed
  <2>2. CASE MutationStep
    BY <2>1, <2>2, MutationStepBoundary
  <2>3. CASE Begin
    BY <2>3, BeginBoundary
  <2>4. CASE UNCHANGED mutationVars
    BY <2>4 DEF BoundaryInv, Harmless, mutationVars, copyVars
  <2>5. CASE pc' = "idle" /\ job' \in {None, job}
    BY <2>5 DEF BoundaryInv, Harmless, Renaming
  <2>6. CASE Edit
    BY <2>6 DEF Edit, Running, Resting, BoundaryInv, Harmless, Renaming
  <2> QED BY <2>2, <2>3, <2>4, <2>5, <2>6, StepKinds
<1>3. Typed /\ IsolationInv /\ [Next]_vars => IsolationInv'
  BY IsolationStep
<1>4. BoundaryInv /\ IsolationInv => BoundaryHolds
  BY DEF BoundaryInv, IsolationInv, BoundaryHolds, InstalledIsAllowed, PrivateStaysHome,
     IsolationHolds, Harmless, Renaming
<1> QED BY <1>1, <1>2, <1>3, <1>4, TypesHold, PTL DEF Spec

------------------------------------------------------------------------------
(* Paid jobs *)

\* A job, known by its number, is in the active run or in an attempt.
HasDirectory(n) == (job # None /\ job.number = n) \/ \E a \in archived : a.job # None /\ a.job.number = n

LEMMA PaidStep ==
  ASSUME Typed, PaidInv, [Next]_vars
  PROVE  PaidInv'
<1>1. /\ paid \in Nat /\ \A n \in 1..paid : HasDirectory(n)
      /\ \A a \in archived : a.path # "mutate" => a.job = None
      /\ At("archive") =>
           \A i \in DOMAIN verb.done : verb.done[i].stage = "mutate" => outputs["mutate"] = None
  BY DEF PaidInv, PaidJobsKept, HasDirectory, Typed, MutationTyped
<1>2. ASSUME UNCHANGED <<paid, job, archived>>, ~At("archive")' PROVE PaidInv'
  BY <1>1, <1>2 DEF PaidInv, PaidJobsKept, HasDirectory
<1>3. CASE \E stage \in StageSet : Invoke(stage)
  <2>1. PICK stage \in StageSet : Invoke(stage)
    BY <1>3
  <2>2. UNCHANGED <<paid, job, archived>> /\ DOMAIN verb'.done = {}
    BY <2>1 DEF Invoke, mutationVars
  <2> QED BY <1>1, <2>2 DEF PaidInv, PaidJobsKept, HasDirectory
<1>4. CASE ArchiveOne
  <2> DEFINE path == Paths[FirstStale(verb.stage)]
             number == AttemptNumber(StageOf[path])
             new == [path |-> path, number |-> number,
                     job |-> IF path = "mutate" THEN job ELSE None]
             others == {a \in archived : ~(a.path = path /\ a.number = number)}
  <2>1. /\ verb # None /\ verb.step = "archive" /\ Stale(verb.stage) # {}
        /\ archived' = others \cup {new}
        /\ outputs' = [outputs EXCEPT ![path] = None]
        /\ job' = IF path = "mutate" THEN None ELSE job
        /\ verb' = [verb EXCEPT !.done = Append(@, [stage |-> StageOf[path], number |-> number])]
        /\ paid' = paid
    BY <1>4 DEF ArchiveOne
  <2>2. /\ path \in PathSet /\ StageOf[path] \in StageSet /\ outputs[path] # None
        /\ StageOf[path] = "mutate" <=> path = "mutate"
    BY <2>1, FirstStaleFacts, PathFacts
  <2>3. \A a \in archived : a.path \in PathSet
    BY DEF Typed
  <2>4. outputs' = [p \in PathSet |-> IF p = path THEN None ELSE outputs[p]]
    BY <2>1 DEF Typed
  <2>5. /\ number \in Nat
        /\ (\A k \in DOMAIN verb.done : verb.done[k].stage # StageOf[path]) =>
             \A a \in archived : StageOf[a.path] = StageOf[path] => a.number # number
    BY <2>1, <2>2, AttemptNumberFacts DEF At
  <2>6. new.path = path /\ new.job = IF path = "mutate" THEN job ELSE None
    OBVIOUS
  <2> HIDE DEF path, number, new, others
  <2>7. \A a \in archived : a.job # None => a \in others
    <3> SUFFICES ASSUME NEW a \in archived, a.job # None, a.path = path, a.number = number
                 PROVE  FALSE
      BY DEF others
    <3>1. path = "mutate" /\ StageOf[path] = "mutate" /\ StageOf[a.path] = "mutate"
      BY <1>1, <2>2
    <3>2. \A k \in DOMAIN verb.done : verb.done[k].stage # StageOf[path]
      BY <1>1, <2>1, <2>2, <3>1 DEF At
    <3> QED BY <2>5, <3>1, <3>2
  <2>8. ASSUME NEW n \in 1..paid PROVE HasDirectory(n)'
    <3>1. CASE job # None /\ job.number = n
      <4>1. CASE path = "mutate"
        <5>1. new \in archived' /\ new.job = job
          BY <2>1, <2>6, <4>1
        <5> QED BY <3>1, <5>1 DEF HasDirectory
      <4>2. CASE path # "mutate"
        BY <2>1, <3>1, <4>2 DEF HasDirectory
      <4> QED BY <4>1, <4>2
    <3>2. CASE \E a \in archived : a.job # None /\ a.job.number = n
      <4>1. PICK a \in archived : a.job # None /\ a.job.number = n
        BY <3>2
      <4>2. a \in archived'
        BY <2>1, <2>7, <4>1
      <4> QED BY <4>1, <4>2 DEF HasDirectory
    <3> QED BY <1>1, <3>1, <3>2 DEF HasDirectory
  <2>9. \A a \in archived' : a.path # "mutate" => a.job = None
    <3>1. \A a \in others : a.path # "mutate" => a.job = None
      BY <1>1 DEF others
    <3>2. new.path # "mutate" => new.job = None
      BY <2>6
    <3> QED BY <2>1, <3>1, <3>2
  <2>10. \A i \in DOMAIN verb'.done : verb'.done[i].stage = "mutate" => outputs'["mutate"] = None
    <3>1. verb \in Verbs /\ verb.done \in Seq(Moves)
      BY <2>1 DEF Typed, Verbs
    <3>2. PICK m \in Moves : m = [stage |-> StageOf[path], number |-> number]
      BY <2>2, <2>5 DEF Moves
    <3>3. verb'.done = Append(verb.done, m)
      BY <2>1, <3>1, <3>2 DEF Verbs
    <3>4. /\ DOMAIN verb.done = 1..Len(verb.done) /\ Len(verb.done) \in Nat
          /\ DOMAIN verb'.done = 1..Len(verb.done) + 1
          /\ \A i \in 1..Len(verb.done) : verb'.done[i] = verb.done[i]
          /\ verb'.done[Len(verb.done) + 1] = m
      BY <3>1, <3>3, AppendProperties, LenProperties
    <3>5. ASSUME NEW i \in DOMAIN verb'.done, verb'.done[i].stage = "mutate"
          PROVE  outputs'["mutate"] = None
      <4>1. "mutate" \in PathSet
        BY PathFacts
      <4>2. CASE i = Len(verb.done) + 1
        <5>1. path = "mutate"
          BY <2>2, <3>2, <3>4, <3>5, <4>2
        <5> QED BY <2>4, <4>1, <5>1
      <4>3. CASE i \in 1..Len(verb.done)
        <5>1. outputs["mutate"] = None
          BY <1>1, <2>1, <3>4, <3>5, <4>3 DEF At
        <5> QED BY <2>4, <4>1, <5>1
      <4> QED BY <3>4, <4>2, <4>3
    <3> QED BY <3>5
  <2> QED BY <2>1, <2>8, <2>9, <2>10 DEF PaidInv, PaidJobsKept, HasDirectory
<1>5. CASE StartOperator
  <2>1. UNCHANGED <<paid, job, archived>> /\ verb'.step = "operator"
    <3>1. verb \in Verbs
      BY <1>5 DEF StartOperator, Typed
    <3>2. verb'.step = "operator" /\ archived' = archived
      BY <1>5, <3>1 DEF StartOperator, Verbs
    <3> QED BY <1>5, <3>2 DEF StartOperator, Begin, mutationVars
  <2> QED BY <1>2, <2>1 DEF At
<1>6. CASE OperatorWrites
  <2>1. verb' = [verb EXCEPT !.step = "after"] /\ verb # None
        /\ UNCHANGED <<paid, job, archived>>
    BY <1>6 DEF OperatorWrites, mutationVars
  <2>2. verb'.step = "after"
    BY <2>1, VerbStep DEF StepNames
  <2> QED BY <1>2, <2>1, <2>2 DEF At
<1>7. CASE OperatorFails \/ MutateEnds \/ AfterOperator \/ Commit \/ Kill
  <2>1. verb' = None /\ UNCHANGED <<paid, job, archived>>
    BY <1>7 DEF OperatorFails, MutateEnds, AfterOperator, Commit, Kill, mutationVars
  <2> QED BY <1>2, <2>1 DEF At
<1>8. CASE MutateRuns
  <2>1. MutationStep /\ UNCHANGED <<archived, verb, outputs>>
    BY <1>8 DEF MutateRuns, proposalVars
  <2>2. At("operator")
    BY <2>1, MutationStepRuns DEF Typed
  <2>3. CASE UNCHANGED <<paid, job>>
    BY <1>2, <2>1, <2>2, <2>3 DEF At
  <2>4. CASE StartJob /\ ~UNCHANGED <<paid, job>>
    <3>1. /\ job = None /\ paid' = paid + 1
          /\ job' = [number |-> paid + 1, names |-> bundle.names, expose |-> bundle.expose]
      BY <2>4 DEF StartJob
    <3>2. job' # None /\ job'.number = paid + 1
      <4>1. bundle.names \in SUBSET NamePlaces /\ bundle.expose \in BOOLEAN
        BY <2>4 DEF StartJob, Typed, MutationTyped, Early
      <4>2. job' \in [number : Nat, names : SUBSET NamePlaces, expose : BOOLEAN]
        BY <1>1, <3>1, <4>1
      <4> QED BY <3>1, <4>2, JobAssumption
    <3>3. ASSUME NEW n \in 1..paid' PROVE HasDirectory(n)'
      <4>1. CASE n = paid + 1
        BY <3>2, <4>1 DEF HasDirectory
      <4>2. CASE n \in 1..paid
        BY <1>1, <2>1, <3>1, <4>2 DEF HasDirectory
      <4> QED BY <1>1, <3>1, <4>1, <4>2
    <3> QED BY <1>1, <2>1, <2>2, <3>3 DEF PaidInv, PaidJobsKept, HasDirectory, At
  <2>5. StartJob \/ UNCHANGED <<paid, job>>
    BY <2>1 DEF MutationStep, PrepareBundle, RunHarbor, CheckReturned, CopyReturned, MoveAside,
       MoveIn, InstallFails, Verify, Discard, DiscardFails, UndoInstalled, UndoMoved, UndoEnds,
       UndoFails, ReadManifest, KillMutation
  <2> QED BY <2>3, <2>4, <2>5
<1>9. CASE IsolatedEnds
  <2>1. /\ verb # None /\ UNCHANGED <<paid, job, archived>>
        /\ (verb' = None \/ verb' = [verb EXCEPT !.step = "install"])
    BY <1>9 DEF IsolatedEnds, mutationVars
  <2>2. ~At("archive")'
    BY <2>1, VerbStep DEF StepNames, At
  <2> QED BY <1>2, <2>1, <2>2
<1>10. CASE InstallChange
  <2>1. verb.step = "install" /\ UNCHANGED <<paid, job, archived>> /\ verb' \in {None, verb}
    BY <1>10 DEF InstallChange
  <2> QED BY <1>2, <2>1 DEF At
<1>11. CASE InstallArtifacts
  <2>1. /\ verb # None /\ UNCHANGED <<paid, job, archived>>
        /\ (verb' = None \/ verb' = [verb EXCEPT !.step = "after"])
    BY <1>11 DEF InstallArtifacts, mutationVars
  <2>2. ~At("archive")'
    BY <2>1, VerbStep DEF StepNames, At
  <2> QED BY <1>2, <2>1, <2>2
<1>12. CASE Admit
  BY <1>2, <1>12 DEF Admit, At, mutationVars
<1>13. CASE Edit
  BY <1>1, <1>13 DEF Edit, PaidInv, PaidJobsKept, HasDirectory, At
<1>14. CASE UNCHANGED vars
  BY <1>1, <1>14 DEF vars, mutationVars, proposalVars, PaidInv, PaidJobsKept, HasDirectory, At
<1> QED BY <1>3, <1>4, <1>5, <1>6, <1>7, <1>8, <1>9, <1>10, <1>11, <1>12, <1>13, <1>14 DEF Next

\* Every job that was paid for keeps its directory, in the active run or in an attempt
\* (run_agent's refusal and orchestration._archive_active_outputs, which gives each
\* attempt a number no other has).
THEOREM PaidJobsAreKept == Spec => []PaidJobsKept
<1>1. Init => PaidInv
  BY DEF Init, MutationInit, PaidInv, PaidJobsKept, At
<1>2. Typed /\ PaidInv /\ [Next]_vars => PaidInv'
  BY PaidStep
<1>3. PaidInv => PaidJobsKept
  BY DEF PaidInv
<1> QED BY <1>1, <1>2, <1>3, TypesHold, PTL DEF Spec

------------------------------------------------------------------------------
(* Evidence *)

\* What an operator that works finds at its own stage and at later ones: nothing.
LEMMA LaterStagesCleared ==
  ASSUME Cleared, Working, NEW p \in PathSet, ~(p = "mutate" /\ MutateWrites),
         Rank(StageOf[p]) >= Rank(verb.stage)
  PROVE  outputs[p] = None
BY DEF Cleared

\* An operator's new output replaces none that a later stage was made from.
LEMMA LeavesEvidence ==
  ASSUME Typed, EvidenceInv, Working, ~MutateWrites, NEW t, Leaves(t)
  PROVE  EvidenceIsCurrent'
<1>1. outputs = [p \in PathSet |-> outputs[p]] /\ EvidenceIsCurrent /\ Cleared
  BY DEF Typed, EvidenceInv
<1>2. /\ PathSet = {"parents", "rollout", "analyze", "feedback", "mutate", "validate", "novelty",
                    "novelty_receipt"}
      /\ Evidence \in {"analyze", "rollout"}
  BY PathFacts DEF Evidence
<1>3. CASE verb.stage \in {"select", "rollout"}
  <2>1. /\ outputs["analyze"] = None /\ outputs["feedback"] = None /\ outputs["mutate"] = None
    BY <1>1, <1>2, <1>3, LaterStagesCleared, StageFacts DEF StageOf
  <2>2. outputs' = [outputs EXCEPT ![OutputOf(verb.stage)] = [by |-> invocations]]
        /\ OutputOf(verb.stage) \in {"parents", "rollout"}
    BY <1>3 DEF Leaves, OutputOf, Admissions
  <2>3. /\ outputs'["analyze"] = None /\ outputs'["feedback"] = None /\ outputs'["mutate"] = None
    BY <1>1, <1>2, <2>1, <2>2
  <2> QED BY <2>3 DEF EvidenceIsCurrent
<1>4. CASE verb.stage = "analyze"
  <2>1. outputs["feedback"] = None /\ outputs["mutate"] = None
    BY <1>1, <1>2, <1>4, LaterStagesCleared, StageFacts DEF StageOf
  <2>2. outputs' = [outputs EXCEPT !["analyze"] =
                       [by |-> invocations, from |-> outputs["rollout"].by]]
    BY <1>4 DEF Leaves, Admissions
  <2>3. /\ outputs'["feedback"] = None /\ outputs'["mutate"] = None
        /\ outputs'["rollout"] = outputs["rollout"]
        /\ outputs'["analyze"].from = outputs["rollout"].by
    BY <1>1, <1>2, <2>1, <2>2
  <2> QED BY <2>3 DEF EvidenceIsCurrent
<1>5. CASE verb.stage = "mutate"
  <2>1. outputs' = [outputs EXCEPT !["mutate"] =
                       [by |-> invocations, from |-> outputs[Evidence].by]]
    BY <1>5 DEF Leaves, Admissions
  <2>2. /\ outputs'["rollout"] = outputs["rollout"] /\ outputs'["analyze"] = outputs["analyze"]
        /\ outputs'["feedback"] = outputs["feedback"]
        /\ outputs'["mutate"].from = outputs[Evidence].by
    BY <1>1, <1>2, <2>1
  <2> QED BY <1>1, <1>2, <2>2 DEF EvidenceIsCurrent
<1>6. CASE verb.stage \in Admissions
  <2>1. PICK accept \in BOOLEAN :
          outputs' = [outputs EXCEPT ![verb.stage] =
                        [by |-> invocations, accept |-> accept, receipt |-> None]]
    BY <1>6 DEF Leaves, Admissions
  <2>2. \A p \in {"rollout", "analyze", "feedback", "mutate"} : outputs'[p] = outputs[p]
    BY <1>1, <1>2, <1>6, <2>1 DEF Admissions
  <2> QED BY <1>1, <1>2, <2>2 DEF EvidenceIsCurrent
<1> QED BY <1>3, <1>4, <1>5, <1>6 DEF Leaves

LEMMA EvidenceStep ==
  ASSUME Typed, EvidenceInv, [Next]_vars
  PROVE  EvidenceInv'
<1>1. /\ outputs = [p \in PathSet |-> outputs[p]] /\ EvidenceIsCurrent /\ Cleared
      /\ verb \in {None} \cup Verbs
      /\ At("install") => sandboxed
  BY DEF Typed, EvidenceInv
<1>2. /\ PathSet = {"parents", "rollout", "analyze", "feedback", "mutate", "validate", "novelty",
                    "novelty_receipt"}
      /\ Evidence \in {"analyze", "rollout"}
  BY PathFacts DEF Evidence
<1>3. ASSUME UNCHANGED outputs, ~Working' PROVE EvidenceInv'
  <2>1. Cleared'
    BY <1>3 DEF Cleared
  <2>2. EvidenceIsCurrent'
    BY <1>1, <1>3 DEF EvidenceIsCurrent
  <2> QED BY <2>1, <2>2 DEF EvidenceInv
<1>4. ASSUME UNCHANGED <<outputs, verb, sandboxed>> PROVE EvidenceInv'
  BY <1>1, <1>4 DEF EvidenceInv, EvidenceIsCurrent, Cleared, Working, At, MutateWrites
<1>5. CASE \E stage \in StageSet : Invoke(stage)
  <2>1. PICK stage \in StageSet : Invoke(stage)
    BY <1>5
  <2>2. UNCHANGED outputs /\ verb'.step = "archive"
    BY <2>1 DEF Invoke
  <2> QED BY <1>3, <2>2 DEF Working, At
<1>6. CASE ArchiveOne
  <2>1. PICK path \in PathSet : outputs' = [outputs EXCEPT ![path] = None]
    <3>1. Stale(verb.stage) # {} /\ outputs' = [outputs EXCEPT ![Paths[FirstStale(verb.stage)]] = None]
      BY <1>6 DEF ArchiveOne
    <3> QED BY <3>1, FirstStaleFacts
  <2>2. \A p \in PathSet : outputs'[p] \in {None, outputs[p]}
    BY <1>1, <2>1
  <2>3. EvidenceIsCurrent'
    BY <1>1, <1>2, <2>2 DEF EvidenceIsCurrent
  <2>4. ~Working'
    <3>1. verb \in Verbs /\ verb.step = "archive"
      BY <1>1, <1>6 DEF ArchiveOne
    <3>2. verb'.step = "archive"
      BY <1>6, <3>1 DEF ArchiveOne, Verbs
    <3> QED BY <3>2 DEF Working, At
  <2> QED BY <2>3, <2>4 DEF EvidenceInv, Cleared
<1>7. CASE StartOperator
  <2>1. /\ verb \in Verbs /\ Stale(verb.stage) = {} /\ sandboxed' = sandboxed
        /\ verb' = [verb EXCEPT !.step = "operator", !.done = << >>]
    BY <1>1, <1>7 DEF StartOperator
  <2>2. verb'.step = "operator" /\ verb'.stage = verb.stage
    BY <2>1 DEF Verbs
  <2>3. \A p \in PathSet : Rank(StageOf[p]) >= Rank(verb.stage) => outputs[p] = None
    BY <2>1, NothingStale
  <2>4. CASE UNCHANGED outputs
    <3>1. Cleared'
      BY <2>2, <2>3, <2>4 DEF Cleared
    <3>2. EvidenceIsCurrent'
      BY <1>1, <2>4 DEF EvidenceIsCurrent
    <3> QED BY <3>1, <3>2 DEF EvidenceInv
  <2>5. CASE /\ verb.stage = "mutate" /\ ~sandboxed
             /\ outputs' = [outputs EXCEPT !["mutate"] =
                              [by |-> invocations, from |-> outputs[Evidence].by]]
    <3>1. /\ \A p \in PathSet : p # "mutate" => outputs'[p] = outputs[p]
          /\ outputs'["mutate"].from = outputs[Evidence].by
      BY <1>1, <1>2, <2>5
    <3>2. MutateWrites'
      BY <2>1, <2>2, <2>5 DEF MutateWrites
    <3>3. Cleared'
      BY <2>2, <2>3, <3>1, <3>2 DEF Cleared
    <3>4. EvidenceIsCurrent'
      BY <1>1, <1>2, <3>1 DEF EvidenceIsCurrent
    <3> QED BY <3>3, <3>4 DEF EvidenceInv
  <2> QED BY <1>7, <2>4, <2>5 DEF StartOperator
<1>8. CASE OperatorWrites
  <2>1. /\ Working /\ ~MutateWrites /\ Leaves(Worktree) /\ verb # None
        /\ verb' = [verb EXCEPT !.step = "after"]
    BY <1>8 DEF OperatorWrites, Working, At, MutateWrites
  <2>2. EvidenceIsCurrent'
    BY <2>1, LeavesEvidence
  <2>3. ~Working'
    BY <2>1, VerbStep DEF StepNames, Working, At
  <2> QED BY <2>2, <2>3 DEF EvidenceInv, Cleared
<1>9. CASE OperatorFails \/ MutateEnds \/ Commit \/ Kill
  <2>1. verb' = None
    BY <1>9 DEF OperatorFails, MutateEnds, Commit, Kill
  <2>2. CASE UNCHANGED outputs
    BY <1>3, <2>1, <2>2 DEF Working, At
  <2>3. CASE OperatorFails /\ Leaves(Worktree) /\ ~sandboxed
    <3>1. Working /\ ~MutateWrites
      BY <2>3 DEF OperatorFails, Working, At, MutateWrites
    <3>2. EvidenceIsCurrent'
      BY <2>3, <3>1, LeavesEvidence
    <3> QED BY <2>1, <3>2 DEF EvidenceInv, Cleared, Working, At
  <2> QED BY <1>9, <2>2, <2>3 DEF OperatorFails, MutateEnds, Commit, Kill
<1>10. CASE MutateRuns
  BY <1>4, <1>10 DEF MutateRuns, proposalVars, boxVars
<1>11. CASE AfterOperator
  <2>1. verb' = None
    BY <1>11 DEF AfterOperator
  <2>2. \/ outputs' = [outputs EXCEPT !["validate"].receipt = Worktree]
        \/ outputs' = [outputs EXCEPT !["novelty_receipt"] = [receipt |-> Worktree]]
        \/ outputs' = [outputs EXCEPT !["feedback"] = [from |-> outputs["analyze"].by]]
        \/ UNCHANGED outputs
    BY <1>11 DEF AfterOperator
  <2>3. /\ \A p \in {"rollout", "analyze", "mutate"} : outputs'[p] = outputs[p]
        /\ outputs'["feedback"] = outputs["feedback"]
           \/ outputs'["feedback"].from = outputs["analyze"].by
    BY <1>1, <1>2, <2>2
  <2>4. EvidenceIsCurrent'
    BY <1>1, <1>2, <2>3 DEF EvidenceIsCurrent
  <2> QED BY <2>1, <2>4 DEF EvidenceInv, Cleared, Working, At
<1>12. CASE IsolatedEnds
  <2>1. /\ verb # None /\ verb.step = "operator" /\ UNCHANGED <<outputs, sandboxed>>
        /\ (verb' = None \/ verb' = [verb EXCEPT !.step = "install"])
    BY <1>12 DEF IsolatedEnds
  <2>2. CASE verb' = None
    BY <1>3, <2>1, <2>2 DEF Working, At
  <2>3. CASE verb' = [verb EXCEPT !.step = "install"]
    <3>1. verb'.stage = verb.stage /\ Working
      BY <2>1, <2>3, VerbStep DEF StepNames, Working, At
    <3>2. Cleared' /\ EvidenceIsCurrent'
      BY <1>1, <2>1, <3>1 DEF Cleared, MutateWrites, EvidenceIsCurrent
    <3> QED BY <3>2 DEF EvidenceInv
  <2> QED BY <2>1, <2>2, <2>3
<1>13. CASE InstallChange
  <2>1. UNCHANGED <<outputs, sandboxed>> /\ (verb' = None \/ verb' = verb)
    BY <1>13 DEF InstallChange
  <2> QED BY <1>3, <1>4, <2>1 DEF Working, At
<1>14. CASE InstallArtifacts
  <2>1. /\ Working /\ sandboxed /\ verb # None
        /\ (verb' = None \/ verb' = [verb EXCEPT !.step = "after"])
        /\ (Leaves(box.before) \/ UNCHANGED outputs)
    BY <1>1, <1>14 DEF InstallArtifacts, Working, At
  <2>2. ~Working'
    BY <2>1, VerbStep DEF StepNames, Working, At
  <2>3. CASE Leaves(box.before)
    <3>1. EvidenceIsCurrent'
      BY <2>1, <2>3, LeavesEvidence DEF MutateWrites
    <3> QED BY <2>2, <3>1 DEF EvidenceInv, Cleared
  <2> QED BY <1>3, <2>1, <2>2, <2>3
<1>15. CASE Admit
  BY <1>3, <1>15 DEF Admit, Working, At
<1>16. CASE Edit
  BY <1>4, <1>16 DEF Edit, boxVars
<1>17. CASE UNCHANGED vars
  BY <1>4, <1>17 DEF vars, proposalVars, boxVars
<1> QED BY <1>5, <1>6, <1>7, <1>8, <1>9, <1>10, <1>11, <1>12, <1>13, <1>14, <1>15, <1>16, <1>17
        DEF Next

\* No active output was made from one that has been replaced since, whatever operators are
\* configured and in whatever order the agent invokes them
\* (orchestration._archive_active_outputs, by stage and later stages).
THEOREM EvidenceStaysCurrent == Spec => []EvidenceIsCurrent
<1>1. Init => EvidenceInv
  <2> SUFFICES ASSUME Init PROVE EvidenceInv
    OBVIOUS
  <2>1. verb = None /\ \A p \in PathSet : outputs[p] = None
    BY DEF Init
  <2> QED BY <2>1, PathFacts DEF EvidenceInv, Cleared, Working, At, EvidenceIsCurrent
<1>2. Typed /\ EvidenceInv /\ [Next]_vars => EvidenceInv'
  BY EvidenceStep
<1>3. EvidenceInv => EvidenceIsCurrent
  BY DEF EvidenceInv
<1> QED BY <1>1, <1>2, <1>3, TypesHold, PTL DEF Spec

------------------------------------------------------------------------------
(* Admission *)

\* What an operator leaves, having seen the worktree as it is.
LEMMA LeavesAdmission ==
  ASSUME Typed, Cleared, ReceiptsTrue, Working, ~MutateWrites, Leaves(Worktree), verb.stage \in StageSet
  PROVE  /\ ReceiptsTrue'
         /\ verb.stage \in {"validate", "novelty"} =>
              /\ outputs'[verb.stage] = [by |-> outputs'[verb.stage].by,
                                         accept |-> outputs'[verb.stage].accept, receipt |-> None]
              /\ outputs'[verb.stage].accept => <<verb.stage, Worktree>> \in judged'
<1>1. outputs = [p \in PathSet |-> outputs[p]]
  BY DEF Typed
<1>2. PathSet = {"parents", "rollout", "analyze", "feedback", "mutate", "validate", "novelty",
                 "novelty_receipt"}
  BY PathFacts
<1>3. CASE verb.stage \notin Admissions
  <2>1. /\ judged' = judged
        /\ \A p \in {"validate", "novelty", "novelty_receipt"} : outputs'[p] = outputs[p]
    BY <1>1, <1>2, <1>3 DEF Leaves, OutputOf
  <2>2. verb.stage \notin {"validate", "novelty"}
    BY <1>3 DEF Leaves, Admissions
  <2> QED BY <2>1, <2>2 DEF ReceiptsTrue, Accepts
<1>4. CASE verb.stage \in Admissions
  <2>1. PICK accept \in BOOLEAN :
          /\ outputs' = [outputs EXCEPT ![verb.stage] =
                            [by |-> invocations, accept |-> accept, receipt |-> None]]
          /\ judged' = IF accept THEN judged \cup {<<verb.stage, Worktree>>}
                       ELSE judged \ {<<verb.stage, Worktree>>}
    BY <1>4 DEF Leaves, Admissions
  <2>2. verb.stage \in {"validate", "novelty"}
    BY <1>4 DEF Admissions
  <2>3. /\ outputs'[verb.stage] = [by |-> outputs'[verb.stage].by, accept |-> accept, receipt |-> None]
        /\ outputs'[verb.stage].accept = accept /\ outputs'[verb.stage].receipt = None
        /\ \A p \in PathSet : p # verb.stage => outputs'[p] = outputs[p]
    BY <1>1, <1>2, <2>1, <2>2
  <2>4. \A s, t : s # verb.stage /\ <<s, t>> \in judged => <<s, t>> \in judged'
    BY <2>1
  <2>5. accept => <<verb.stage, Worktree>> \in judged'
    BY <2>1
  <2>6. CASE verb.stage = "validate"
    <3>1. outputs'["novelty"] = outputs["novelty"]
          /\ outputs'["novelty_receipt"] = outputs["novelty_receipt"]
      BY <1>2, <2>3, <2>6
    <3>2. ReceiptsTrue'
      BY <2>3, <2>4, <2>6, <3>1 DEF ReceiptsTrue, Accepts
    <3> QED BY <2>3, <2>5, <3>2
  <2>7. CASE verb.stage = "novelty"
    <3>1. outputs["novelty_receipt"] = None
      BY <1>2, <2>7, LaterStagesCleared, StageFacts DEF StageOf
    <3>2. outputs'["validate"] = outputs["validate"]
          /\ outputs'["novelty_receipt"] = outputs["novelty_receipt"]
      BY <1>2, <2>3, <2>7
    <3>3. ReceiptsTrue'
      BY <2>4, <2>7, <3>1, <3>2 DEF ReceiptsTrue, Accepts
    <3> QED BY <2>3, <2>5, <3>3
  <2> QED BY <2>2, <2>6, <2>7
<1> QED BY <1>3, <1>4

LEMMA AdmissionStep ==
  ASSUME Typed, Cleared, AdmissionInv, ~EditDuringVerbs, [Next]_vars
  PROVE  AdmissionInv'
<1>1. /\ outputs = [p \in PathSet |-> outputs[p]]
      /\ verb \in {None} \cup Verbs /\ (committed # None => verb = None)
      /\ verb # None /\ ~At("commit") => verb.stage \in StageSet
      /\ At("install") => sandboxed
      /\ pc # "idle" => At("operator") /\ MutateWrites
      /\ Working /\ sandboxed => box \in [before : Worktrees, after : Worktrees]
      /\ tree \in [Places -> Values]
  BY DEF Typed, MutationTyped
<1>2. /\ ReceiptsTrue /\ CommittedWasAdmitted
      /\ At("after") /\ verb.stage \in {"validate", "novelty"} => JudgedNow(verb.stage)
      /\ At("commit") => \A s \in Admissions : <<s, Worktree>> \in judged
      /\ Working /\ sandboxed => box.before = Worktree
  BY DEF AdmissionInv
<1>3. PathSet = {"parents", "rollout", "analyze", "feedback", "mutate", "validate", "novelty",
                 "novelty_receipt"}
  BY PathFacts
<1>4. ASSUME UNCHANGED <<outputs, judged, committed>>, ~Working', ~At("after")', ~At("commit")'
      PROVE  AdmissionInv'
  BY <1>2, <1>4 DEF AdmissionInv, ReceiptsTrue, Accepts, CommittedWasAdmitted
<1>5. ASSUME UNCHANGED <<outputs, judged, committed, verb, Worktree, sandboxed, box>>
      PROVE  AdmissionInv'
  BY <1>2, <1>5
     DEF AdmissionInv, ReceiptsTrue, Accepts, JudgedNow, CommittedWasAdmitted, Working, At
<1>6. CASE \E stage \in StageSet : Invoke(stage)
  <2>1. PICK stage \in StageSet : Invoke(stage)
    BY <1>6
  <2>2. UNCHANGED <<outputs, judged, committed>> /\ verb'.step = "archive"
    BY <2>1 DEF Invoke
  <2> QED BY <1>4, <2>2 DEF Working, At
<1>7. CASE ArchiveOne
  <2>1. PICK path \in PathSet : outputs' = [outputs EXCEPT ![path] = None]
    <3>1. Stale(verb.stage) # {} /\ outputs' = [outputs EXCEPT ![Paths[FirstStale(verb.stage)]] = None]
      BY <1>7 DEF ArchiveOne
    <3> QED BY <3>1, FirstStaleFacts
  <2>2. \A p \in PathSet : outputs'[p] \in {None, outputs[p]}
    BY <1>1, <2>1
  <2>3. verb'.step = "archive" /\ UNCHANGED <<judged, committed>>
    <3>1. verb \in Verbs /\ verb.step = "archive"
      BY <1>1, <1>7 DEF ArchiveOne
    <3> QED BY <1>7, <3>1 DEF ArchiveOne, Verbs
  <2>4. ReceiptsTrue'
    BY <1>2, <1>3, <2>2, <2>3 DEF ReceiptsTrue, Accepts
  <2> QED BY <1>2, <2>3, <2>4 DEF AdmissionInv, ReceiptsTrue, Accepts, CommittedWasAdmitted, Working, At
<1>8. CASE StartOperator
  <2>1. /\ verb \in Verbs /\ UNCHANGED <<judged, committed, sandboxed>> /\ committed = None
        /\ verb' = [verb EXCEPT !.step = "operator", !.done = << >>]
        /\ box' = IF sandboxed THEN [before |-> Worktree, after |-> Worktree] ELSE None
    BY <1>1, <1>8 DEF StartOperator
  <2>2. verb'.step = "operator"
    BY <2>1 DEF Verbs
  <2>3. \A p \in {"validate", "novelty", "novelty_receipt"} : outputs'[p] = outputs[p]
    BY <1>1, <1>3, <1>8 DEF StartOperator
  <2>4. sandboxed => box'.before = Worktree'
    BY <1>8, <2>1 DEF StartOperator, mutationVars, Worktree
  <2> QED BY <1>2, <2>1, <2>2, <2>3, <2>4
          DEF AdmissionInv, ReceiptsTrue, Accepts, CommittedWasAdmitted, Working, At
<1>9. CASE OperatorWrites
  <2>1. /\ Working /\ ~MutateWrites /\ Leaves(Worktree) /\ verb # None /\ ~At("commit")
        /\ verb' = [verb EXCEPT !.step = "after"] /\ committed' = committed /\ Worktree' = Worktree
    BY <1>9 DEF OperatorWrites, Working, At, MutateWrites, mutationVars, Worktree
  <2>2. verb'.step = "after" /\ verb'.stage = verb.stage
    BY <2>1, VerbStep DEF StepNames
  <2>3. ReceiptsTrue' /\ (verb.stage \in {"validate", "novelty"} => JudgedNow(verb.stage)')
    BY <1>1, <1>2, <2>1, <2>2, LeavesAdmission DEF JudgedNow
  <2>4. committed = None
    BY <1>1, <2>1
  <2> QED BY <2>1, <2>2, <2>3, <2>4 DEF AdmissionInv, JudgedNow, CommittedWasAdmitted, Working, At
<1>10. CASE OperatorFails \/ MutateEnds \/ Kill
  <2>1. committed' = committed /\ verb' = None
    BY <1>10 DEF OperatorFails, MutateEnds, Kill
  <2>2. CASE UNCHANGED <<outputs, judged>>
    BY <1>4, <2>1, <2>2 DEF Working, At
  <2>3. CASE OperatorFails /\ Leaves(Worktree) /\ ~sandboxed
    <3>1. Working /\ ~MutateWrites /\ verb # None /\ verb.stage \in StageSet
      BY <1>1, <2>3 DEF OperatorFails, Working, At, MutateWrites
    <3>2. ReceiptsTrue' /\ committed = None
      BY <1>1, <1>2, <2>3, <3>1, LeavesAdmission
    <3> QED BY <2>1, <3>2 DEF AdmissionInv, CommittedWasAdmitted, Working, At
  <2> QED BY <1>10, <2>2, <2>3 DEF OperatorFails, MutateEnds, Kill
<1>11. CASE MutateRuns
  <2>1. UNCHANGED <<outputs, judged, committed, verb, sandboxed, box>>
    BY <1>11 DEF MutateRuns, proposalVars, boxVars
  <2>2. At("operator") /\ MutateWrites
    BY <1>1, <1>11, MutationStepRuns DEF MutateRuns
  <2> QED BY <1>2, <2>1, <2>2
          DEF AdmissionInv, ReceiptsTrue, Accepts, CommittedWasAdmitted, Working, At, MutateWrites
<1>12. CASE AfterOperator
  <2>1. /\ verb # None /\ verb.step = "after" /\ verb' = None /\ UNCHANGED <<judged, committed>>
    BY <1>12 DEF AfterOperator
  <2>2. \/ /\ verb.stage = "validate"
           /\ outputs' = [outputs EXCEPT !["validate"].receipt = Worktree]
        \/ /\ verb.stage = "novelty"
           /\ outputs' = [outputs EXCEPT !["novelty_receipt"] = [receipt |-> Worktree]]
        \/ outputs' = [outputs EXCEPT !["feedback"] = [from |-> outputs["analyze"].by]]
        \/ UNCHANGED outputs
    BY <1>12 DEF AfterOperator
  <2>3. CASE /\ verb.stage = "validate"
             /\ outputs' = [outputs EXCEPT !["validate"].receipt = Worktree]
    <3>1. /\ outputs'["validate"] = [outputs["validate"] EXCEPT !.receipt = Worktree]
          /\ outputs'["novelty"] = outputs["novelty"]
          /\ outputs'["novelty_receipt"] = outputs["novelty_receipt"]
      BY <1>1, <1>3, <2>3
    <3>2. JudgedNow("validate")
      BY <1>2, <2>1, <2>3 DEF At
    <3>3. /\ outputs'["validate"].receipt = Worktree
          /\ outputs'["validate"].accept = outputs["validate"].accept
      BY <3>1, <3>2 DEF JudgedNow
    <3>4. ReceiptsTrue'
      BY <1>2, <2>1, <3>1, <3>2, <3>3 DEF ReceiptsTrue, Accepts, JudgedNow
    <3> QED BY <1>2, <2>1, <3>4 DEF AdmissionInv, CommittedWasAdmitted, Working, At
  <2>4. CASE /\ verb.stage = "novelty"
             /\ outputs' = [outputs EXCEPT !["novelty_receipt"] = [receipt |-> Worktree]]
    <3>1. /\ outputs'["validate"] = outputs["validate"]
          /\ outputs'["novelty"] = outputs["novelty"]
          /\ outputs'["novelty_receipt"].receipt = Worktree
      BY <1>1, <1>3, <2>4
    <3>2. JudgedNow("novelty")
      BY <1>2, <2>1, <2>4 DEF At
    <3>3. ReceiptsTrue'
      BY <1>2, <2>1, <3>1, <3>2 DEF ReceiptsTrue, Accepts, JudgedNow
    <3> QED BY <1>2, <2>1, <3>3 DEF AdmissionInv, CommittedWasAdmitted, Working, At
  <2>5. CASE outputs' = [outputs EXCEPT !["feedback"] = [from |-> outputs["analyze"].by]]
    <3>1. \A p \in {"validate", "novelty", "novelty_receipt"} : outputs'[p] = outputs[p]
      BY <1>1, <1>3, <2>5
    <3>2. ReceiptsTrue'
      BY <1>2, <2>1, <3>1 DEF ReceiptsTrue, Accepts
    <3> QED BY <1>2, <2>1, <3>2 DEF AdmissionInv, CommittedWasAdmitted, Working, At
  <2>6. CASE UNCHANGED outputs
    BY <1>4, <2>1, <2>6 DEF Working, At
  <2> QED BY <2>2, <2>3, <2>4, <2>5, <2>6
<1>13. CASE IsolatedEnds
  <2>1. /\ verb # None /\ verb.step = "operator" /\ sandboxed
        /\ UNCHANGED <<mutationVars, outputs, judged, committed, sandboxed>>
    BY <1>13 DEF IsolatedEnds
  <2>2. PICK after : IF Forbidden(after) THEN verb' = None /\ box' = None
                     ELSE verb' = [verb EXCEPT !.step = "install"] /\ box' = [box EXCEPT !.after = after]
    BY <1>13 DEF IsolatedEnds
  <2>3. CASE Forbidden(after)
    BY <1>4, <2>1, <2>2, <2>3 DEF Working, At
  <2>4. CASE ~Forbidden(after)
    <3>1. verb'.step = "install"
      BY <2>1, <2>2, <2>4, VerbStep DEF StepNames
    <3>2. box \in [before : Worktrees, after : Worktrees] /\ box.before = Worktree
      BY <1>1, <1>2, <2>1 DEF Working, At
    <3>3. box'.before = Worktree'
      BY <2>1, <2>2, <2>4, <3>2 DEF mutationVars, Worktree
    <3>4. ReceiptsTrue'
      BY <1>2, <2>1 DEF ReceiptsTrue, Accepts
    <3> QED BY <1>2, <2>1, <3>1, <3>3, <3>4 DEF AdmissionInv, CommittedWasAdmitted, Working, At
  <2> QED BY <2>3, <2>4
<1>14. CASE InstallChange
  <2>1. /\ verb # None /\ verb.step = "install"
        /\ UNCHANGED <<outputs, judged, committed, sandboxed>>
    BY <1>14 DEF InstallChange
  <2>2. PICK p \in RootSet :
          IF box.after[p] = None /\ tree[p] = None
          THEN verb' = None /\ box' = None /\ UNCHANGED tree
          ELSE /\ tree' = [tree EXCEPT ![p] = box.after[p]]
               /\ box' = [box EXCEPT !.before[p] = box.after[p]]
               /\ UNCHANGED verb
    BY <1>14 DEF InstallChange
  <2>3. CASE verb' = None
    BY <1>4, <2>1, <2>3 DEF Working, At
  <2>4. CASE /\ tree' = [tree EXCEPT ![p] = box.after[p]]
             /\ box' = [box EXCEPT !.before[p] = box.after[p]]
             /\ verb' = verb
    <3>1. box \in [before : Worktrees, after : Worktrees] /\ box.before = Worktree
      BY <1>1, <1>2, <2>1 DEF Working, At
    <3>2. box'.before = [box.before EXCEPT ![p] = box.after[p]]
      BY <2>4, <3>1
    <3>3. \A q \in RootSet : q \in Places
      BY DEF Places
    <3>4. Worktree' = [Worktree EXCEPT ![p] = box.after[p]]
      BY <1>1, <2>4, <3>3 DEF Worktree
    <3>5. ReceiptsTrue'
      BY <1>2, <2>1 DEF ReceiptsTrue, Accepts
    <3> QED BY <1>2, <2>1, <2>4, <3>1, <3>2, <3>4, <3>5
            DEF AdmissionInv, CommittedWasAdmitted, Working, At
  <2> QED BY <2>2, <2>3, <2>4
<1>15. CASE InstallArtifacts
  <2>1. /\ Working /\ sandboxed /\ verb # None /\ verb.step = "install" /\ box.before = Worktree
        /\ UNCHANGED <<mutationVars, committed>>
    BY <1>1, <1>2, <1>15 DEF InstallArtifacts, Working, At
  <2>2. Worktree' = Worktree /\ committed = None /\ verb.stage \in StageSet
    BY <1>1, <2>1 DEF mutationVars, Worktree, At
  <2>3. CASE Leaves(box.before)
    <3>0. Leaves(Worktree) /\ ~MutateWrites
      BY <2>1, <2>3 DEF MutateWrites
    <3>1. /\ ReceiptsTrue'
          /\ verb.stage \in {"validate", "novelty"} =>
               /\ outputs'[verb.stage] = [by |-> outputs'[verb.stage].by,
                                          accept |-> outputs'[verb.stage].accept, receipt |-> None]
               /\ outputs'[verb.stage].accept => <<verb.stage, Worktree>> \in judged'
      BY <1>2, <2>1, <2>2, <3>0, LeavesAdmission
    <3>2. CASE verb' = None
      BY <2>2, <2>1, <3>1, <3>2 DEF AdmissionInv, CommittedWasAdmitted, Working, At
    <3>3. CASE verb' = [verb EXCEPT !.step = "after"]
      <4>1. verb'.step = "after" /\ verb'.stage = verb.stage
        BY <2>1, <3>3, VerbStep DEF StepNames
      <4> QED BY <2>1, <2>2, <3>1, <4>1
              DEF AdmissionInv, JudgedNow, CommittedWasAdmitted, Working, At
    <3> QED BY <1>15, <3>2, <3>3 DEF InstallArtifacts
  <2>4. CASE UNCHANGED <<outputs, judged>> /\ verb' = None
    BY <1>4, <2>1, <2>4 DEF Working, At
  <2> QED BY <1>15, <2>3, <2>4 DEF InstallArtifacts
<1>16. CASE Admit
  <2>1. /\ UNCHANGED <<mutationVars, outputs, judged, committed>> /\ committed = None
        /\ Admitted(Worktree) /\ verb'.step = "commit"
    BY <1>16 DEF Admit
  <2>2. Worktree' = Worktree /\ Worktree # None
    BY <1>1, <2>1, WorktreeTyped DEF mutationVars, Worktree
  <2>3. \A s \in Admissions : <<s, Worktree>> \in judged
    <3>1. ASSUME NEW s \in Admissions PROVE <<s, Worktree>> \in judged
      <4>1. outputs[s] # None /\ outputs[s].accept
        BY <2>1 DEF Admitted
      <4>2. CASE s = "validate"
        BY <1>2, <2>1, <2>2, <4>1, <4>2 DEF Admitted, Admissions, ReceiptsTrue, Accepts
      <4>3. CASE s = "novelty"
        BY <1>2, <2>1, <2>2, <4>1, <4>3 DEF Admitted, Admissions, ReceiptsTrue, Accepts
      <4> QED BY <4>2, <4>3 DEF Admissions
    <3> QED BY <3>1
  <2>4. ReceiptsTrue'
    BY <1>2, <2>1 DEF ReceiptsTrue, Accepts
  <2> QED BY <2>1, <2>2, <2>3, <2>4 DEF AdmissionInv, CommittedWasAdmitted, Working, At
<1>17. CASE Commit
  <2>1. /\ verb # None /\ verb.step = "commit" /\ verb' = None /\ UNCHANGED <<outputs, judged>>
        /\ committed' \in {None, Worktree}
    BY <1>17 DEF Commit
  <2>2. \A s \in Admissions : <<s, Worktree>> \in judged
    BY <1>2, <2>1 DEF At
  <2>3. ReceiptsTrue'
    BY <1>2, <2>1 DEF ReceiptsTrue, Accepts
  <2> QED BY <2>1, <2>2, <2>3 DEF AdmissionInv, CommittedWasAdmitted, Working, At
<1>18. CASE Edit
  <2>1. verb = None /\ UNCHANGED <<outputs, verb, committed, judged>>
    BY <1>18 DEF Edit
  <2> QED BY <1>4, <2>1 DEF Working, At
<1>19. CASE UNCHANGED vars
  BY <1>5, <1>19 DEF vars, mutationVars, proposalVars, boxVars, Worktree
<1> QED BY <1>6, <1>7, <1>8, <1>9, <1>10, <1>11, <1>12, <1>13, <1>14, <1>15, <1>16, <1>17,
          <1>18, <1>19 DEF Next

\* The tree of a candidate's commit is one that every configured admission accepted the
\* last time it looked at it (orchestration._assert_admission and the candidate receipts),
\* when no hand edits the worktree while a verb holds the workspace.
THEOREM CommitsWereAdmitted ==
  ASSUME ~EditDuringVerbs
  PROVE  Spec => []CommittedWasAdmitted
<1>1. Init => EvidenceInv /\ AdmissionInv
  <2> SUFFICES ASSUME Init PROVE EvidenceInv /\ AdmissionInv
    OBVIOUS
  <2>1. verb = None /\ committed = None /\ \A p \in PathSet : outputs[p] = None
    BY DEF Init
  <2> QED BY <2>1, PathFacts DEF EvidenceInv, Cleared, Working, At, EvidenceIsCurrent,
            AdmissionInv, ReceiptsTrue, Accepts, CommittedWasAdmitted
<1>2. Typed /\ EvidenceInv /\ [Next]_vars => EvidenceInv'
  BY EvidenceStep
<1>3. Typed /\ EvidenceInv /\ AdmissionInv /\ [Next]_vars => AdmissionInv'
  BY AdmissionStep DEF EvidenceInv
<1>4. AdmissionInv => CommittedWasAdmitted
  BY DEF AdmissionInv
<1> QED BY <1>1, <1>2, <1>3, <1>4, TypesHold, PTL DEF Spec
=============================================================================
