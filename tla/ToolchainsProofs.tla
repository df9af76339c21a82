-------------------------- MODULE ToolchainsProofs ---------------------------
(***************************************************************************)
(* Proofs about Toolchains, for any tools, images and number of Steps:     *)
(* what the factories put where in a chain, that projects share their      *)
(* toolchain's install, and whose command an uncached parent is.           *)
(***************************************************************************)
EXTENDS Toolchains, StepChainProofs, NaturalsInduction, WellFoundedInduction

-----------------------------------------------------------------------------
(* Induction up to a number, over a set in place of a predicate.           *)
LEMMA UpTo ==
  ASSUME NEW n \in Nat, NEW P, 0 \in P, \A i \in 1 .. n : i - 1 \in P => i \in P
  PROVE  \A i \in 0 .. n : i \in P
<1> DEFINE R == {ss \in Nat \X Nat : ss[1] < ss[2]}
           missing == (0 .. n) \ P
<1>1. IsWellFoundedOn(R, Nat)
  BY NatLessThanWellFounded DEF OpToRel
<1>2. SUFFICES ASSUME missing # {} PROVE FALSE
  OBVIOUS
<1>3. missing \subseteq Nat
  OBVIOUS
<1>4. PICK x \in missing : \A y \in missing : ~(<<y, x>> \in R)
  <2> HIDE DEF R, missing
  <2> QED
    BY <1>1, <1>2, <1>3, WFMin
<1>5. x \in 1 .. n
  OBVIOUS
<1>6. x - 1 \in 0 .. n /\ x - 1 \in Nat /\ x - 1 < x /\ x \in Nat
  BY <1>5
<1>7. <<x - 1, x>> \in R
  BY <1>6
<1>8. x - 1 \notin missing
  BY <1>4, <1>7
<1> QED
  BY <1>5, <1>6, <1>8

(* What is above a Step, as a function of the heap.                        *)
AboveIn(h, s) ==
  LET up[t \in 1 .. Len(h)] ==
        IF h[t].parent = NoStep THEN {} ELSE {h[t].parent} \cup up[h[t].parent]
  IN up[s]

LEMMA AboveIsIn ==
  /\ \A s : Above(s) = AboveIn(heap, s)
  /\ \A s : Above(s)' = AboveIn(heap', s)
<1>1. \A s : Above(s) = AboveIn(heap, s)
  BY DEF Above, AboveIn, StepIds, Parent
<1>2. \A s : Above(s)' = AboveIn(heap', s)
  BY DEF Above, AboveIn, StepIds, Parent
<1> QED
  BY <1>1, <1>2

Forest(h) == Len(h) \in Nat /\ \A t \in 1 .. Len(h) : h[t].parent \in 0 .. t - 1

IsAbove(g, h) ==
  g = [t \in 1 .. Len(h) |-> IF h[t].parent = NoStep THEN {}
                             ELSE {h[t].parent} \cup g[h[t].parent]]

(* The recursion of Above is well defined: there is a table of what is     *)
(* above each Step.                                                        *)
LEMMA AboveExists ==
  ASSUME NEW h, Forest(h)
  PROVE  \E g : IsAbove(g, h)
<1> DEFINE Part(g, m) == g = [t \in 1 .. m |-> IF h[t].parent = NoStep THEN {}
                                               ELSE {h[t].parent} \cup g[h[t].parent]]
           P == {m \in Nat : \E g : Part(g, m)}
<1>0. Len(h) \in Nat /\ \A t \in 1 .. Len(h) : h[t].parent \in 0 .. t - 1
  BY DEF Forest
<1>1. 0 \in P
  <2>1. Part([t \in 1 .. 0 |-> {}], 0)
    OBVIOUS
  <2> QED
    BY <2>1
<1>2. ASSUME NEW m \in 1 .. Len(h), m - 1 \in P
      PROVE  m \in P
  <2>1. PICK g : Part(g, m - 1)
    BY <1>2
  <2> DEFINE r == [t \in 1 .. m |-> IF t # m THEN g[t]
                                    ELSE IF h[t].parent = NoStep THEN {}
                                    ELSE {h[t].parent} \cup g[h[t].parent]]
  <2>2. /\ m \in Nat
        /\ \A t \in 1 .. m : t # m => t \in 1 .. m - 1
        /\ \A t \in 1 .. m : h[t].parent # NoStep => h[t].parent \in 1 .. m /\ h[t].parent # m
    <3>1. \A t \in 1 .. m : t \in 1 .. Len(h) /\ t - 1 < m /\ t \in Nat
      BY <1>0
    <3>2. \A t \in 1 .. m : h[t].parent \in 0 .. t - 1
      BY <1>0, <3>1
    <3> QED
      BY <1>0, <3>1, <3>2 DEF NoStep
  <2>3. \A t \in 1 .. m : t # m => r[t] = IF h[t].parent = NoStep THEN {}
                                          ELSE {h[t].parent} \cup g[h[t].parent]
    BY <2>1, <2>2
  <2>4. \A t \in 1 .. m : h[t].parent # NoStep => r[h[t].parent] = g[h[t].parent]
    BY <2>2
  <2>5. r[m] = IF h[m].parent = NoStep THEN {} ELSE {h[m].parent} \cup g[h[m].parent]
    OBVIOUS
  <2>6. \A t \in 1 .. m : r[t] = IF h[t].parent = NoStep THEN {}
                                 ELSE {h[t].parent} \cup r[h[t].parent]
    BY <2>3, <2>4, <2>5
  <2>7. r = [t \in 1 .. m |-> r[t]]
    OBVIOUS
  <2> HIDE DEF r
  <2>8. Part(r, m)
    BY <2>6, <2>7
  <2> QED
    BY <2>2, <2>8
<1>3. Len(h) \in P
  <2> HIDE DEF P
  <2>1. \A i \in 0 .. Len(h) : i \in P
    BY <1>0, <1>1, <1>2, UpTo
  <2> QED
    BY <1>0, <2>1
<1> QED
  BY <1>3 DEF IsAbove

(* The parent is above a Step, and what is above the parent.               *)
LEMMA AboveParent ==
  ASSUME NEW h, Forest(h), NEW s \in 1 .. Len(h)
  PROVE  AboveIn(h, s) = IF h[s].parent = NoStep THEN {}
                         ELSE {h[s].parent} \cup AboveIn(h, h[s].parent)
<1> DEFINE up == CHOOSE g : IsAbove(g, h)
<1>1. IsAbove(up, h)
  BY AboveExists
<1>2. \A t : AboveIn(h, t) = up[t]
  BY DEF AboveIn, IsAbove
<1> HIDE DEF up
<1> QED
  BY <1>1, <1>2 DEF IsAbove

(* What is above a Step is older.                                          *)
LEMMA AboveIsOlder ==
  ASSUME NEW h, Forest(h)
  PROVE  \A s \in 1 .. Len(h) : AboveIn(h, s) \subseteq 1 .. s - 1
<1> DEFINE P == {m \in Nat : \A s \in 1 .. m : s \in 1 .. Len(h) => AboveIn(h, s) \subseteq 1 .. s - 1}
<1>0. Len(h) \in Nat /\ \A t \in 1 .. Len(h) : h[t].parent \in 0 .. t - 1
  BY DEF Forest
<1>1. 0 \in P
  OBVIOUS
<1>2. ASSUME NEW m \in 1 .. Len(h), m - 1 \in P
      PROVE  m \in P
  <2> DEFINE p == h[m].parent
  <2>1. m \in Nat /\ p \in 0 .. m - 1 /\ \A s \in 1 .. m : s # m => s \in 1 .. m - 1
    BY <1>0
  <2>2. AboveIn(h, m) = IF p = NoStep THEN {} ELSE {p} \cup AboveIn(h, p)
    BY AboveParent
  <2>3. p # NoStep => AboveIn(h, p) \subseteq 1 .. p - 1
    <3>1. p # NoStep => p \in 1 .. m - 1 /\ p \in 1 .. Len(h)
      BY <1>0, <2>1 DEF NoStep
    <3> HIDE DEF p
    <3> QED
      BY <1>2, <3>1
  <2>4. p # NoStep => 1 .. p - 1 \subseteq 1 .. m - 1 /\ p \in 1 .. m - 1
    BY <2>1 DEF NoStep
  <2> HIDE DEF p
  <2>5. AboveIn(h, m) \subseteq 1 .. m - 1
    BY <2>2, <2>3, <2>4
  <2> QED
    BY <1>2, <2>1, <2>5
<1>3. Len(h) \in P
  <2> HIDE DEF P
  <2>1. \A i \in 0 .. Len(h) : i \in P
    BY <1>0, <1>1, <1>2, UpTo
  <2> QED
    BY <1>0, <2>1
<1> QED
  BY <1>3

(* It stays what it is when a Step is added.                               *)
LEMMA AboveStays ==
  ASSUME NEW h, NEW g, Forest(h), Forest(g), Len(h) <= Len(g),
         \A s \in 1 .. Len(h) : g[s] = h[s]
  PROVE  \A s \in 1 .. Len(h) : AboveIn(g, s) = AboveIn(h, s)
<1> DEFINE P == {m \in Nat : \A s \in 1 .. m : s \in 1 .. Len(h) => AboveIn(g, s) = AboveIn(h, s)}
<1>0. /\ Len(h) \in Nat /\ Len(g) \in Nat
      /\ \A t \in 1 .. Len(h) : h[t].parent \in 0 .. t - 1 /\ t \in 1 .. Len(g)
  BY DEF Forest
<1>1. 0 \in P
  OBVIOUS
<1>2. ASSUME NEW m \in 1 .. Len(h), m - 1 \in P
      PROVE  m \in P
  <2> DEFINE p == h[m].parent
  <2>1. m \in Nat /\ p \in 0 .. m - 1 /\ \A s \in 1 .. m : s # m => s \in 1 .. m - 1
    BY <1>0
  <2>2. /\ AboveIn(h, m) = IF p = NoStep THEN {} ELSE {p} \cup AboveIn(h, p)
        /\ AboveIn(g, m) = IF p = NoStep THEN {} ELSE {p} \cup AboveIn(g, p)
    <3>1. m \in 1 .. Len(g) /\ g[m].parent = p
      BY <1>0
    <3> QED
      BY <3>1, AboveParent
  <2>3. p # NoStep => AboveIn(g, p) = AboveIn(h, p)
    <3>1. p # NoStep => p \in 1 .. m - 1 /\ p \in 1 .. Len(h)
      BY <1>0, <2>1 DEF NoStep
    <3> HIDE DEF p
    <3> QED
      BY <1>2, <3>1
  <2> HIDE DEF p
  <2>5. AboveIn(g, m) = AboveIn(h, m)
    BY <2>2, <2>3
  <2> QED
    BY <1>2, <2>1, <2>5
<1>3. Len(h) \in P
  <2> HIDE DEF P
  <2>1. \A i \in 0 .. Len(h) : i \in P
    BY <1>0, <1>1, <1>2, UpTo
  <2> QED
    BY <1>0, <2>1
<1> QED
  BY <1>3

(* Some of the older Steps have a youngest.                                *)
LEMMA YoungestExists ==
  ASSUME NEW n \in Nat, NEW S \in SUBSET (1 .. n), S # {}
  PROVE  \E a \in S : \A b \in S : b <= a
<1> DEFINE P == {m \in Nat : S \cap (1 .. m) # {} =>
                               \E a \in S \cap (1 .. m) : \A b \in S \cap (1 .. m) : b <= a}
<1>1. 0 \in P
  OBVIOUS
<1>2. ASSUME NEW m \in 1 .. n, m - 1 \in P
      PROVE  m \in P
  <2>1. m \in Nat /\ \A b \in 1 .. m : b <= m /\ (b # m => b \in 1 .. m - 1)
    OBVIOUS
  <2>2. \A b \in 1 .. m - 1 : b \in 1 .. m
    OBVIOUS
  <2>3. CASE m \in S
    BY <2>1, <2>3
  <2>4. CASE m \notin S
    <3>1. S \cap (1 .. m) = S \cap (1 .. m - 1)
      BY <2>1, <2>2, <2>4
    <3> QED
      BY <1>2, <2>1, <3>1
  <2> QED
    BY <2>3, <2>4
<1>3. n \in P
  <2> HIDE DEF P
  <2>1. \A i \in 0 .. n : i \in P
    BY <1>1, <1>2, UpTo
  <2> QED
    BY <2>1
<1>4. S \cap (1 .. n) = S
  OBVIOUS
<1> QED
  BY <1>3, <1>4


-----------------------------------------------------------------------------
(***************************************************************************)
(* The inductive invariant.  What a chain looks like around the Steps of a *)
(* toolchain: an image on a Step that is no command is a root's; apt runs  *)
(* on a new scratch; an image on a toolchain's own Step came through the   *)
(* call of apt or from a root below it; and each of those Steps is cached. *)
(***************************************************************************)
RootsBearImages ==
  \A s \in StepIds : heap[s].cmd = None /\ heap[s].image # None => Parent(s) = NoStep

AptOnScratch ==
  \A s \in StepIds : heap[s].cmd = "apt" => Parent(s) \in StepIds /\ heap[Parent(s)] = BareStep

SetupImages ==
  \A s \in StepIds : heap[s].cmd \in Setup /\ heap[s].image # None =>
    Parent(s) \in StepIds /\ heap[Parent(s)].cmd = None /\ Parent(Parent(s)) = NoStep

SetupHasKeys == \A s \in StepIds : heap[s].cmd \in Setup => HasKey(s)

ChainsInv == WellFormed /\ RootsBearImages /\ AptOnScratch /\ SetupImages /\ SetupHasKeys

(* From x down to `of` nothing is installed.                               *)
SharesIn(h, x, of) ==
  /\ x \in 1 .. Len(h) /\ of \in AboveIn(h, x) \cup {x}
  /\ \A s \in AboveIn(h, x) \cup {x} : h[s].cmd = "install" => s <= of

ObjectsInv ==
  \A o \in objects : o.tool \in Tools /\ SharesIn(heap, o.installed, o.of)

Call == [cmd : Setup, cache : {"ttl", "forever", "on_change"}, image : Opt(StepImages)]

MakingInv ==
  /\ todo \in Seq(Call)
  /\ todo # <<>> =>
       /\ cursor \in StepIds /\ making.tool \in Tools
       /\ \A i \in DOMAIN todo :
            /\ todo[i].cmd = "apt" => i = 1 /\ heap[cursor] = BareStep
            /\ todo[i].image # None => todo[i].cmd = "apt"
            /\ "of" \in DOMAIN making => todo[i].cmd = "layer"
       /\ "of" \in DOMAIN making => SharesIn(heap, cursor, making.of)

LeavesInv == leaves \subseteq StepIds

ToolchainsInv == ChainsInv /\ ObjectsInv /\ MakingInv /\ LeavesInv

LEMMA ForestOfSteps ==
  ASSUME WellFormed
  PROVE  Forest(heap) /\ heap \in Seq(Step) /\ Len(heap) \in Nat
<1>1. heap \in Seq(Step) /\ Len(heap) \in Nat
  BY LenProperties DEF WellFormed
<1>2. ASSUME NEW t \in 1 .. Len(heap)
      PROVE  heap[t].parent \in 0 .. t - 1
  <2>1. heap[t] \in Step /\ heap[t].parent < t
    BY <1>1, ElementOfSeq DEF WellFormed, StepIds, Parent
  <2>2. heap[t].parent \in Nat
    BY <2>1 DEF Step
  <2> QED
    BY <1>1, <2>1, <2>2
<1> QED
  BY <1>1, <1>2 DEF Forest

(* What a new Step must be for the invariant of the chains.                *)
Fits(step) ==
  /\ step \in Step /\ step.parent \in 0 .. Len(heap) /\ step.is_wait = FALSE
  /\ step.cmd = None /\ step.image # None => step.parent = NoStep
  /\ step.cmd = "apt" => step.parent \in StepIds /\ heap[step.parent] = BareStep
  /\ step.cmd \in Setup /\ step.image # None =>
       step.parent \in StepIds /\ heap[step.parent].cmd = None /\ Parent(step.parent) = NoStep
  /\ step.cmd \in Setup => step.cache \notin {None, "none"}

LEMMA AllocKeepsChains ==
  ASSUME ChainsInv, NEW step, Fits(step), Alloc(step)
  PROVE  /\ ChainsInv' /\ Forest(heap) /\ Forest(heap')
         /\ Len(heap) \in Nat /\ Len(heap') = Len(heap) + 1
         /\ \A i \in 1 .. Len(heap) : heap'[i] = heap[i]
         /\ heap'[Len(heap) + 1] = step
<1>0. heap \in Seq(Step) /\ Len(heap) \in Nat /\ Forest(heap) /\ step \in Step
  BY ForestOfSteps DEF ChainsInv, Fits
<1>1. heap' = Append(heap, step)
  BY DEF Alloc
<1>2. /\ Len(heap') = Len(heap) + 1
      /\ \A i \in 1 .. Len(heap) : heap'[i] = heap[i]
      /\ heap'[Len(heap) + 1] = step
  BY <1>0, <1>1, AppendProperties
<1>3. WellFormed'
  BY <1>0, AllocWellFormed DEF ChainsInv, Fits
<1>4. Forest(heap')
  <2>1. ASSUME NEW t \in 1 .. Len(heap) + 1
        PROVE  heap'[t].parent \in 0 .. t - 1
    <3>1. CASE t \in 1 .. Len(heap)
      BY <1>0, <1>2, <3>1 DEF Forest
    <3>2. CASE t = Len(heap) + 1
      BY <1>0, <1>2, <3>2 DEF Fits
    <3> QED
      BY <1>0, <3>1, <3>2
  <2> QED
    BY <1>0, <1>2, <2>1 DEF Forest
<1>5. ASSUME NEW s \in 1 .. Len(heap) + 1
      PROVE  /\ heap'[s].cmd = None /\ heap'[s].image # None => heap'[s].parent = NoStep
             /\ heap'[s].cmd = "apt" =>
                  heap'[s].parent \in 1 .. Len(heap) /\ heap[heap'[s].parent] = BareStep
             /\ heap'[s].cmd \in Setup /\ heap'[s].image # None =>
                  /\ heap'[s].parent \in 1 .. Len(heap)
                  /\ heap[heap'[s].parent].cmd = None
                  /\ heap[heap'[s].parent].parent = NoStep
             /\ heap'[s].cmd \in Setup => heap'[s].cache \notin {None, "none"}
  <2>1. CASE s \in 1 .. Len(heap)
    BY <1>2, <2>1 DEF ChainsInv, RootsBearImages, AptOnScratch, SetupImages, SetupHasKeys,
                      HasKey, Parent, StepIds
  <2>2. CASE s = Len(heap) + 1
    BY <1>2, <2>2 DEF Fits, StepIds, Parent
  <2> QED
    BY <1>0, <2>1, <2>2
<1>6. \A i \in 1 .. Len(heap) : i \in 1 .. Len(heap) + 1
  BY <1>0
<1>7. RootsBearImages' /\ SetupHasKeys'
  BY <1>2, <1>5 DEF RootsBearImages, SetupHasKeys, HasKey, StepIds, Parent
<1>8. AptOnScratch'
  BY <1>2, <1>5, <1>6 DEF AptOnScratch, StepIds, Parent
<1>9. SetupImages'
  BY <1>2, <1>5, <1>6 DEF SetupImages, StepIds, Parent
<1> QED
  BY <1>0, <1>2, <1>3, <1>4, <1>7, <1>8, <1>9 DEF ChainsInv

(* What is shared stays so, and a layer is put on it.                      *)
LEMMA SharesStays ==
  ASSUME NEW h, NEW g, Forest(h), Forest(g), Len(h) <= Len(g),
         \A s \in 1 .. Len(h) : g[s] = h[s],
         NEW x, NEW of, SharesIn(h, x, of)
  PROVE  SharesIn(g, x, of)
<1>1. AboveIn(g, x) = AboveIn(h, x)
  BY AboveStays DEF SharesIn
<1>2. /\ x \in 1 .. Len(h) /\ x - 1 <= Len(h) /\ x \in 1 .. Len(g)
      /\ \A s \in 1 .. x - 1 : s \in 1 .. Len(h)
  BY DEF SharesIn, Forest
<1>3. AboveIn(h, x) \subseteq 1 .. x - 1
  BY <1>2, AboveIsOlder
<1> QED
  BY <1>1, <1>2, <1>3 DEF SharesIn

LEMMA SharesItself ==
  ASSUME NEW h, Forest(h), NEW x \in 1 .. Len(h)
  PROVE  SharesIn(h, x, x)
<1>1. AboveIn(h, x) \subseteq 1 .. x - 1
  BY AboveIsOlder
<1>2. x \in Nat /\ \A s \in (1 .. x - 1) \cup {x} : s <= x
  BY DEF Forest
<1> QED
  BY <1>1, <1>2 DEF SharesIn

LEMMA SharesThroughLayer ==
  ASSUME NEW g, Forest(g), NEW n \in 1 .. Len(g), g[n].cmd = "layer", g[n].parent # NoStep,
         NEW of, SharesIn(g, g[n].parent, of)
  PROVE  SharesIn(g, n, of)
<1>1. AboveIn(g, n) = {g[n].parent} \cup AboveIn(g, g[n].parent)
  BY AboveParent
<1> QED
  BY <1>1 DEF SharesIn


-----------------------------------------------------------------------------
(* The Steps that are built fit.                                           *)
ShStep(p, cmd, cache, image) ==
  [cmd |-> cmd, parent |-> p, is_wait |-> FALSE, label |-> None, cache |-> cache,
   image |-> EffectiveImage(p, image), key_override |-> None]

LEMMA ShFits ==
  ASSUME ChainsInv, NEW p \in StepIds, NEW cmd \in Roles, NEW cache \in Opt(PolicyKinds),
         NEW image \in Opt(StepImages),
         cmd = "apt" => heap[p] = BareStep,
         cmd \in Setup /\ image # None => cmd = "apt",
         cmd \in Setup => cache \notin {None, "none"},
         Sh(p, cmd, None, cache, image, None)
  PROVE  Fits(ShStep(p, cmd, cache, image)) /\ Alloc(ShStep(p, cmd, cache, image))
<1> DEFINE step == ShStep(p, cmd, cache, image)
<1>1. /\ heap \in Seq(Step) /\ Len(heap) \in Nat /\ RootsBearImages
      /\ heap[p] \in Step /\ p \in 0 .. Len(heap) /\ p \in Nat /\ p # NoStep
  BY ForestOfSteps, ElementOfSeq DEF ChainsInv, StepIds, NoStep
<1>2. EffectiveImage(p, image) \in Opt(StepImages \cup RootImages)
  BY <1>1 DEF EffectiveImage, Step, Opt
<1>3. cmd # None
  BY RolesAreCmds, NoneIsNoValue
<1>4. /\ step \in Step /\ step.parent = p /\ step.is_wait = FALSE /\ step.cmd = cmd
      /\ step.cache = cache /\ step.image = EffectiveImage(p, image)
  BY <1>1, <1>2, RolesAreCmds DEF ShStep, Step, Opt
<1>5. ASSUME cmd \in Setup, EffectiveImage(p, image) # None
      PROVE  heap[p].cmd = None /\ Parent(p) = NoStep
  <2>1. CASE image = None
    BY <1>1, <1>5, <2>1 DEF EffectiveImage, RootsBearImages
  <2>2. CASE image # None
    <3>1. heap[p] = BareStep
      BY <1>5, <2>2
    <3> QED
      BY <3>1 DEF BareStep, Parent
  <2> QED
    BY <2>1, <2>2
<1>6. Alloc(step)
  BY DEF Sh, ShStep
<1> HIDE DEF step
<1>7. Fits(step)
  BY <1>1, <1>3, <1>4, <1>5 DEF Fits
<1> QED
  BY <1>6, <1>7 DEF step

LEMMA ScratchFits ==
  ASSUME ChainsInv, Scratch
  PROVE  Fits(BareStep) /\ Alloc(BareStep)
<1>1. /\ BareStep \in Step /\ BareStep.parent = 0 /\ BareStep.is_wait = FALSE
      /\ BareStep.cmd = None /\ BareStep.image = None
  BY DEF BareStep, Step, Opt, NoStep
<1>2. None \notin Setup /\ "apt" # None
  BY RolesAreCmds, NoneIsNoValue DEF Roles, Setup
<1> QED
  BY <1>1, <1>2, ForestOfSteps DEF Fits, Scratch, ChainsInv, NoStep

LEMMA BaseImageFits ==
  ASSUME ChainsInv, NEW img \in RootImages, BaseImage(img)
  PROVE  Fits([BareStep EXCEPT !.image = img]) /\ Alloc([BareStep EXCEPT !.image = img])
<1> DEFINE step == [BareStep EXCEPT !.image = img]
<1>1. step \in Step /\ step.parent = 0 /\ step.is_wait = FALSE /\ step.cmd = None
  BY DEF BareStep, Step, Opt, NoStep
<1>2. None \notin Setup /\ "apt" # None
  BY RolesAreCmds, NoneIsNoValue DEF Roles, Setup
<1>3. Alloc(step)
  BY DEF BaseImage
<1> HIDE DEF step
<1>4. Fits(step)
  BY <1>1, <1>2, ForestOfSteps DEF Fits, ChainsInv, NoStep
<1> QED
  BY <1>3, <1>4 DEF step

ForkStep(p) == [BareStep EXCEPT !.parent = p, !.label = None]

LEMMA ForkFits ==
  ASSUME ChainsInv, NEW p \in StepIds, Fork(p, None)
  PROVE  Fits(ForkStep(p)) /\ Alloc(ForkStep(p))
<1> DEFINE step == ForkStep(p)
<1>1. Len(heap) \in Nat /\ p \in 0 .. Len(heap) /\ p \in Nat
  BY ForestOfSteps DEF ChainsInv, StepIds
<1>2. /\ step \in Step /\ step.parent = p /\ step.is_wait = FALSE /\ step.cmd = None
      /\ step.image = None
  BY <1>1 DEF ForkStep, BareStep, Step, Opt
<1>3. None \notin Setup /\ "apt" # None
  BY RolesAreCmds, NoneIsNoValue DEF Roles, Setup
<1>4. Alloc(step)
  BY DEF Fork, ForkStep
<1> HIDE DEF step
<1>5. Fits(step)
  BY <1>1, <1>2, <1>3 DEF Fits
<1> QED
  BY <1>4, <1>5 DEF step

(* A new Step leaves the rest of the invariant.                            *)
LEMMA GrowingKeeps ==
  ASSUME ToolchainsInv, NEW step, Fits(step), Alloc(step)
  PROVE  /\ ChainsInv' /\ Forest(heap') /\ Len(heap) \in Nat /\ Len(heap') = Len(heap) + 1
         /\ heap'[Len(heap) + 1] = step
         /\ \A i \in 1 .. Len(heap) : heap'[i] = heap[i]
         /\ leaves \subseteq StepIds' /\ Len(heap) + 1 \in StepIds'
         /\ \A o \in objects : o.tool \in Tools /\ SharesIn(heap', o.installed, o.of)
         /\ \A x, of : SharesIn(heap, x, of) => SharesIn(heap', x, of)
<1>1. /\ ChainsInv' /\ Forest(heap) /\ Forest(heap')
      /\ Len(heap) \in Nat /\ Len(heap') = Len(heap) + 1
      /\ \A i \in 1 .. Len(heap) : heap'[i] = heap[i]
      /\ heap'[Len(heap) + 1] = step
  BY AllocKeepsChains DEF ToolchainsInv
<1>2. \A x, of : SharesIn(heap, x, of) => SharesIn(heap', x, of)
  <2> TAKE x, of
  <2>1. Len(heap) <= Len(heap')
    BY <1>1
  <2> QED
    BY <1>1, <2>1, SharesStays
<1>3. \A o \in objects : o.tool \in Tools /\ SharesIn(heap', o.installed, o.of)
  BY <1>2 DEF ToolchainsInv, ObjectsInv
<1>4. leaves \subseteq StepIds' /\ Len(heap) + 1 \in StepIds'
  <2>1. 1 .. Len(heap) \subseteq 1 .. Len(heap) + 1 /\ Len(heap) + 1 \in 1 .. Len(heap) + 1
    BY <1>1
  <2> QED
    BY <1>1, <2>1 DEF ToolchainsInv, LeavesInv, StepIds
<1> QED
  BY <1>1, <1>2, <1>3, <1>4

LEMMA IdleGrowingKeeps ==
  ASSUME ToolchainsInv, NEW step, Fits(step), Alloc(step), todo' = <<>>, objects' = objects,
         leaves' = leaves \/ leaves' = leaves \cup {Len(heap) + 1}
  PROVE  ToolchainsInv'
<1>1. ChainsInv' /\ leaves \subseteq StepIds' /\ Len(heap) + 1 \in StepIds'
  BY GrowingKeeps
<1>2. ObjectsInv'
  <2>1. \A o \in objects : o.tool \in Tools /\ SharesIn(heap', o.installed, o.of)
    BY GrowingKeeps
  <2> QED
    BY <2>1 DEF ObjectsInv
<1>3. MakingInv'
  BY EmptySeq DEF MakingInv
<1>4. LeavesInv'
  BY <1>1 DEF LeavesInv
<1> QED
  BY <1>1, <1>2, <1>3, <1>4 DEF ToolchainsInv

(* Nothing is built.                                                       *)
LEMMA RestingKeeps ==
  ASSUME ToolchainsInv, UNCHANGED <<heap, todo, cursor, making>>, LeavesInv',
         \A o \in objects' : o.tool \in Tools /\ SharesIn(heap, o.installed, o.of)
  PROVE  ToolchainsInv'
<1>1. heap' = heap /\ todo' = todo /\ cursor' = cursor /\ making' = making
  OBVIOUS
<1>2. ChainsInv'
  BY <1>1 DEF ToolchainsInv, ChainsInv, WellFormed, RootsBearImages, AptOnScratch, SetupImages,
              SetupHasKeys, HasKey, StepIds, Parent, IsWait
<1>3. ObjectsInv' /\ MakingInv'
  BY <1>1 DEF ToolchainsInv, ObjectsInv, MakingInv, StepIds
<1> QED
  BY <1>2, <1>3 DEF ToolchainsInv


-----------------------------------------------------------------------------
(* What the recipes and the calls made from them are.                      *)
LayerPolicies == {"on_change", "forever"}

LEMMA RecipesLayers ==
  \A tool \in DOMAIN Recipes : Recipes[tool].layers \subseteq Seq(LayerPolicies)
<1>1. /\ <<>> \in Seq(LayerPolicies) /\ <<"on_change">> \in Seq(LayerPolicies)
      /\ <<"forever">> \in Seq(LayerPolicies)
  BY DEF LayerPolicies
<1> DEFINE S == Seq(LayerPolicies)
<1> HIDE DEF S
<1>2. <<>> \in S /\ <<"on_change">> \in S /\ <<"forever">> \in S
  BY <1>1 DEF S
<1>3. /\ Rust.layers \subseteq S /\ Haskell.layers \subseteq S /\ Npm.layers \subseteq S
      /\ Elm.layers \subseteq S /\ Python.layers \subseteq S /\ Zig.layers \subseteq S
      /\ OCaml.layers \subseteq S /\ Ruby.layers \subseteq S /\ Perl.layers \subseteq S
      /\ Composer.layers \subseteq S /\ Go.layers \subseteq S /\ CMake.layers \subseteq S
      /\ Gradle.layers \subseteq S /\ Dotnet.layers \subseteq S
  BY <1>2 DEF Recipe, Rust, Haskell, Npm, Elm, Python, Zig, OCaml, Ruby, Perl, Composer, Go,
              CMake, Gradle, Dotnet
<1>4. \A tool \in DOMAIN Recipes : Recipes[tool].layers \subseteq S
  BY <1>3 DEF Recipes
<1> QED
  BY <1>4 DEF S

LEMMA LayerCallsAre ==
  ASSUME NEW layers \in Seq(LayerPolicies)
  PROVE  /\ LayerCalls(layers) \in Seq(Call)
         /\ \A i \in DOMAIN LayerCalls(layers) :
              LayerCalls(layers)[i].cmd = "layer" /\ LayerCalls(layers)[i].image = None
<1>1. /\ Len(layers) \in Nat /\ DOMAIN layers = 1 .. Len(layers)
      /\ \A i \in 1 .. Len(layers) : layers[i] \in LayerPolicies
  BY LenProperties, ElementOfSeq
<1>2. LayerCalls(layers) = [i \in 1 .. Len(layers) |-> ShCall("layer", layers[i], None)]
  BY <1>1 DEF LayerCalls
<1>3. \A x \in LayerPolicies : /\ ShCall("layer", x, None) \in Call
                               /\ ShCall("layer", x, None).cmd = "layer"
                               /\ ShCall("layer", x, None).image = None
  BY DEF ShCall, Call, LayerPolicies, Setup, Opt
<1>4. LayerCalls(layers) \in Seq(Call)
  BY <1>1, <1>2, <1>3
<1> QED
  BY <1>1, <1>2, <1>3, <1>4

(* apt is called first and on no base, and an image is given to it alone.  *)
CallsFit(calls, base) ==
  /\ calls \in Seq(Call)
  /\ \A i \in DOMAIN calls :
       /\ calls[i].cmd = "apt" => i = 1 /\ base = NoStep
       /\ calls[i].image # None => calls[i].cmd = "apt"

LEMMA InstallCallsFit ==
  ASSUME NEW base, NEW image \in Opt(StepImages), NEW layers \in Seq(LayerPolicies)
  PROVE  /\ CallsFit(InstallCalls(base, image) \o <<>>, base)
         /\ CallsFit(InstallCalls(base, image) \o LayerCalls(layers), base)
<1> DEFINE A == ShCall("apt", "ttl", image)
           B == ShCall("install", "forever", None)
<1>1. /\ A \in Call /\ A.cmd = "apt" /\ B \in Call /\ B.cmd = "install" /\ B.image = None
  BY DEF ShCall, Call, Setup, Opt
<1>2. InstallCalls(base, image) = IF base = NoStep THEN <<A>> \o <<B>> ELSE <<>> \o <<B>>
  BY DEF InstallCalls
<1> HIDE DEF A, B
<1>3. /\ <<A>> \o <<B>> = Append(<<A>>, B) /\ <<>> \o <<B>> = <<B>>
      /\ Append(<<A>>, B) \in Seq(Call) /\ DOMAIN Append(<<A>>, B) = {1, 2}
      /\ Append(<<A>>, B)[1] = A /\ Append(<<A>>, B)[2] = B
  <2>1. <<A>> \in Seq(Call) /\ <<B>> \in Seq(Call) /\ Len(<<A>>) = 1 /\ <<A>>[1] = A
    BY <1>1
  <2> DEFINE c == <<A>>
  <2>2. c \in Seq(Call) /\ Len(c) = 1 /\ c[1] = A
    BY <2>1
  <2> HIDE DEF c
  <2>3. /\ Append(c, B) \in Seq(Call) /\ DOMAIN Append(c, B) = 1 .. 2
        /\ Append(c, B)[1] = A /\ Append(c, B)[2] = B
    <3>1. /\ Append(c, B) \in Seq(Call) /\ Len(Append(c, B)) = Len(c) + 1
          /\ \A i \in 1 .. Len(c) : Append(c, B)[i] = c[i]
          /\ Append(c, B)[Len(c) + 1] = B
      <4>1. B \in Call /\ c \in Seq(Call)
        BY <1>1, <2>2
      <4> QED
        BY <4>1, AppendProperties
    <3>2. Len(c) + 1 = 2 /\ 1 \in 1 .. Len(c)
      BY <2>2
    <3>3. DOMAIN Append(c, B) = 1 .. Len(Append(c, B))
      BY <3>1, LenProperties
    <3> QED
      BY <2>2, <3>1, <3>2, <3>3
  <2>4. 1 .. 2 = {1, 2}
    OBVIOUS
  <2>5. <<A>> \o <<B>> = Append(<<A>>, B) /\ <<>> \o <<B>> = <<B>>
    BY <1>1, <2>1, AppendIsConcat, ConcatEmptySeq
  <2> QED
    BY <2>3, <2>4, <2>5 DEF c
<1>4. CallsFit(InstallCalls(base, image), base)
  <2>1. CASE base = NoStep
    <3> DEFINE c == Append(<<A>>, B)
    <3>1. c \in Seq(Call) /\ DOMAIN c = {1, 2} /\ c[1] = A /\ c[2] = B
      BY <1>3
    <3>2. InstallCalls(base, image) = c
      BY <1>2, <1>3, <2>1
    <3> HIDE DEF c
    <3> QED
      BY <1>1, <2>1, <3>1, <3>2 DEF CallsFit
  <2>2. CASE base # NoStep
    <3> DEFINE c == <<B>>
    <3>1. c \in Seq(Call) /\ DOMAIN c = {1} /\ c[1] = B
      BY <1>1
    <3>2. InstallCalls(base, image) = c
      BY <1>2, <1>3, <2>2
    <3> HIDE DEF c
    <3> QED
      BY <1>1, <2>2, <3>1, <3>2 DEF CallsFit
  <2> QED
    BY <2>1, <2>2
<1> DEFINE c == InstallCalls(base, image)
           d == LayerCalls(layers)
<1>5. /\ c \in Seq(Call) /\ d \in Seq(Call) /\ CallsFit(c, base)
      /\ \A i \in DOMAIN d : d[i].cmd = "layer" /\ d[i].image = None
  BY <1>4, LayerCallsAre DEF CallsFit
<1> HIDE DEF c, d
<1>6. c \o <<>> = c
  BY <1>5, ConcatEmptySeq
<1>7. CallsFit(c \o d, base)
  <2>1. /\ c \o d \in Seq(Call) /\ Len(c \o d) = Len(c) + Len(d)
        /\ \A i \in 1 .. Len(c) + Len(d) : (c \o d)[i] = IF i <= Len(c) THEN c[i] ELSE d[i - Len(c)]
    BY <1>5, ConcatProperties
  <2>2. /\ Len(c) \in Nat /\ Len(d) \in Nat /\ DOMAIN c = 1 .. Len(c) /\ DOMAIN d = 1 .. Len(d)
        /\ DOMAIN (c \o d) = 1 .. Len(c) + Len(d)
    BY <1>5, <2>1, LenProperties
  <2> DEFINE e == c \o d
  <2> HIDE DEF e
  <2>3. ASSUME NEW i \in 1 .. Len(c) + Len(d)
        PROVE  /\ e[i].cmd = "apt" => i = 1 /\ base = NoStep
               /\ e[i].image # None => e[i].cmd = "apt"
    <3>1. CASE i <= Len(c)
      <4>1. i \in 1 .. Len(c) /\ e[i] = c[i]
        BY <2>1, <2>2, <3>1 DEF e
      <4> QED
        BY <1>5, <2>2, <4>1 DEF CallsFit
    <3>2. CASE ~(i <= Len(c))
      <4>1. i - Len(c) \in 1 .. Len(d) /\ e[i] = d[i - Len(c)]
        BY <2>1, <2>2, <3>2 DEF e
      <4>2. e[i].cmd = "layer" /\ e[i].image = None
        BY <1>5, <2>2, <4>1
      <4> QED
        BY <4>2
    <3> QED
      BY <3>1, <3>2
  <2>4. CallsFit(e, base)
    BY <2>1, <2>2, <2>3 DEF CallsFit, e
  <2> QED
    BY <2>4 DEF e
<1> QED
  BY <1>4, <1>6, <1>7 DEF c, d

(* The calls begin as the invariant has it.                                *)
LEMMA BeginKeeps ==
  ASSUME ToolchainsInv, NEW base, base = NoStep \/ base \in StepIds,
         NEW calls, CallsFit(calls, base), NEW object, object.tool \in Tools,
         "of" \in DOMAIN object =>
           base # NoStep /\ SharesIn(heap, base, object.of)
             /\ \A i \in DOMAIN calls : calls[i].cmd = "layer",
         Begin(base, calls, object), objects' = objects, leaves' = leaves
  PROVE  ToolchainsInv'
<1>1. todo' = calls /\ making' = object
  BY DEF Begin
<1>2. CASE base = NoStep
  <2>1. Scratch /\ cursor' = Len(heap) + 1
    BY <1>2 DEF Begin
  <2>2. Fits(BareStep) /\ Alloc(BareStep)
    BY <2>1, ScratchFits DEF ToolchainsInv
  <2>3. /\ ChainsInv' /\ Len(heap) + 1 \in StepIds' /\ leaves \subseteq StepIds'
        /\ heap'[Len(heap) + 1] = BareStep
    BY <2>2, GrowingKeeps
  <2>4. \A o \in objects : o.tool \in Tools /\ SharesIn(heap', o.installed, o.of)
    BY <2>2, GrowingKeeps
  <2>5. MakingInv'
    BY <1>1, <1>2, <2>1, <2>3 DEF MakingInv, CallsFit
  <2>6. ObjectsInv' /\ LeavesInv'
    BY <2>3, <2>4 DEF ObjectsInv, LeavesInv
  <2> QED
    BY <2>3, <2>5, <2>6 DEF ToolchainsInv
<1>3. CASE base # NoStep
  <2>1. cursor' = base /\ heap' = heap /\ base \in StepIds
    BY <1>3 DEF Begin
  <2>2. ChainsInv'
    BY <2>1 DEF ToolchainsInv, ChainsInv, WellFormed, RootsBearImages, AptOnScratch, SetupImages,
                SetupHasKeys, HasKey, StepIds, Parent, IsWait
  <2>3. MakingInv'
    BY <1>1, <1>3, <2>1 DEF MakingInv, CallsFit, StepIds
  <2>4. ObjectsInv' /\ LeavesInv'
    BY <2>1 DEF ToolchainsInv, ObjectsInv, LeavesInv, StepIds
  <2> QED
    BY <2>2, <2>3, <2>4 DEF ToolchainsInv
<1> QED
  BY <1>2, <1>3

LEMMA FactoryKeeps ==
  ASSUME ToolchainsInv, NEW tool \in Tools, NEW base \in StepIds \cup {NoStep},
         NEW image \in Opt(StepImages), CallFactory(tool, base, image)
  PROVE  ToolchainsInv'
<1>1. PICK layers \in Recipes[tool].layers :
        Begin(base,
              InstallCalls(base, image)
                \o (IF Recipes[tool].spawns THEN <<>> ELSE LayerCalls(layers)),
              [tool |-> tool, spawns |-> Recipes[tool].spawns])
  BY DEF CallFactory
<1> DEFINE object == [tool |-> tool, spawns |-> Recipes[tool].spawns]
           calls == InstallCalls(base, image)
                      \o (IF Recipes[tool].spawns THEN <<>> ELSE LayerCalls(layers))
<1>2. layers \in Seq(LayerPolicies)
  BY RecipesLayers, ToolsHaveRecipes
<1>3. CallsFit(calls, base)
  BY <1>2, InstallCallsFit
<1>4. object.tool \in Tools /\ "of" \notin DOMAIN object
  OBVIOUS
<1>5. Begin(base, calls, object) /\ objects' = objects /\ leaves' = leaves
  BY <1>1 DEF CallFactory
<1> HIDE DEF object, calls
<1> QED
  BY <1>3, <1>4, <1>5, BeginKeeps

LEMMA SpawnKeeps ==
  ASSUME ToolchainsInv, NEW t \in objects, Spawn(t)
  PROVE  ToolchainsInv'
<1>1. t.tool \in Tools /\ SharesIn(heap, t.installed, t.of) /\ Forest(heap)
  BY ForestOfSteps DEF ToolchainsInv, ObjectsInv, ChainsInv
<1>2. PICK layers \in RecipeOf(t).layers :
        IF layers = <<>>
        THEN /\ objects' = objects \cup {[t EXCEPT !.spawns = FALSE]}
             /\ UNCHANGED <<heap, todo, cursor, making>>
        ELSE /\ Begin(t.installed, LayerCalls(layers),
                      [tool |-> t.tool, spawns |-> FALSE, of |-> t.installed])
             /\ UNCHANGED objects
  BY DEF Spawn
<1>3. layers \in Seq(LayerPolicies) /\ leaves' = leaves
  BY <1>1, RecipesLayers, ToolsHaveRecipes DEF RecipeOf, Spawn
<1>4. CASE layers = <<>>
  <2> DEFINE o == [t EXCEPT !.spawns = FALSE]
  <2>1. o.tool = t.tool /\ o.installed = t.installed /\ o.of = t.of
    OBVIOUS
  <2> HIDE DEF o
  <2>2. objects' = objects \cup {o} /\ UNCHANGED <<heap, todo, cursor, making>>
    BY <1>2, <1>4 DEF o
  <2>3. \A x \in objects' : x.tool \in Tools /\ SharesIn(heap, x.installed, x.of)
    BY <1>1, <2>1, <2>2 DEF ToolchainsInv, ObjectsInv
  <2>4. LeavesInv'
    BY <1>3, <2>2 DEF ToolchainsInv, LeavesInv, StepIds
  <2> QED
    BY <2>2, <2>3, <2>4, RestingKeeps
<1>5. CASE layers # <<>>
  <2> DEFINE object == [tool |-> t.tool, spawns |-> FALSE, of |-> t.installed]
             calls == LayerCalls(layers)
  <2>1. Begin(t.installed, calls, object) /\ objects' = objects
    BY <1>2, <1>5
  <2>2. object.tool \in Tools /\ object.of = t.installed
    BY <1>1
  <2>3. t.installed \in StepIds /\ t.installed # NoStep
    BY <1>1 DEF SharesIn, StepIds, NoStep, Forest
  <2>4. SharesIn(heap, t.installed, t.installed)
    BY <1>1, <2>3, SharesItself DEF StepIds
  <2>5. calls \in Seq(Call) /\ \A i \in DOMAIN calls : calls[i].cmd = "layer" /\ calls[i].image = None
    BY <1>3, LayerCallsAre
  <2>6. CallsFit(calls, t.installed)
    BY <2>5 DEF CallsFit
  <2> HIDE DEF object, calls
  <2> QED
    BY <1>3, <2>1, <2>2, <2>3, <2>4, <2>5, <2>6, BeginKeeps
<1> QED
  BY <1>4, <1>5


LEMMA MakeStepKeeps ==
  ASSUME ToolchainsInv, MakeStep
  PROVE  ToolchainsInv'
<1> DEFINE call == Head(todo)
           n == Len(heap) + 1
           step == ShStep(cursor, call.cmd, call.cache, call.image)
<1>1. /\ todo # <<>> /\ cursor' = n /\ todo' = Tail(todo) /\ leaves' = leaves
      /\ Sh(cursor, call.cmd, None, call.cache, call.image, None)
  BY DEF MakeStep
<1>2. /\ todo \in Seq(Call) /\ cursor \in StepIds /\ making.tool \in Tools
      /\ \A i \in DOMAIN todo :
           /\ todo[i].cmd = "apt" => i = 1 /\ heap[cursor] = BareStep
           /\ todo[i].image # None => todo[i].cmd = "apt"
           /\ "of" \in DOMAIN making => todo[i].cmd = "layer"
      /\ "of" \in DOMAIN making => SharesIn(heap, cursor, making.of)
      /\ ChainsInv
  BY <1>1 DEF ToolchainsInv, MakingInv
<1>3. /\ Len(todo) \in Nat /\ Len(todo) # 0 /\ DOMAIN todo = 1 .. Len(todo) /\ 1 \in DOMAIN todo
      /\ call = todo[1] /\ call \in Call
      /\ Tail(todo) \in Seq(Call) /\ Len(Tail(todo)) = Len(todo) - 1
      /\ \A i \in 1 .. Len(todo) - 1 : Tail(todo)[i] = todo[i + 1]
  <2>1. Len(todo) \in Nat /\ DOMAIN todo = 1 .. Len(todo) /\ Len(todo) # 0
    BY <1>1, <1>2, LenProperties
  <2>2. 1 \in 1 .. Len(todo)
    BY <2>1
  <2>3. call = todo[1] /\ todo[1] \in Call
    BY <1>1, <1>2, <2>2, HeadTailProperties, ElementOfSeq
  <2> HIDE DEF call
  <2>4. /\ Tail(todo) \in Seq(Call) /\ Len(Tail(todo)) = Len(todo) - 1
        /\ \A i \in 1 .. Len(todo) - 1 : Tail(todo)[i] = todo[i + 1]
    BY <1>1, <1>2, HeadTailProperties
  <2> QED
    BY <2>1, <2>2, <2>3, <2>4
<1>4. /\ call.cmd \in Roles /\ call.cache \in Opt(PolicyKinds) /\ call.image \in Opt(StepImages)
      /\ call.cmd = "apt" => heap[cursor] = BareStep
      /\ call.image # None => call.cmd = "apt"
      /\ call.cache \notin {None, "none"}
      /\ "of" \in DOMAIN making => call.cmd = "layer"
  <2>1. call.cache \in PolicyKinds /\ call.cache # "none"
    BY <1>3 DEF Call, PolicyKinds
  <2>2. None \notin PolicyKinds
    BY RolesAreCmds, NoneIsNoValue
  <2>3. call.cmd \in Roles /\ call.image \in Opt(StepImages)
    BY <1>3 DEF Call, Roles
  <2> HIDE DEF call
  <2> QED
    BY <1>2, <1>3, <2>1, <2>2, <2>3 DEF Opt
<1>5. Fits(step) /\ Alloc(step) /\ step.cmd = call.cmd /\ step.parent = cursor
  <2>1. step.cmd = call.cmd /\ step.parent = cursor
    BY DEF ShStep
  <2> HIDE DEF call
  <2>2. Fits(step) /\ Alloc(step)
    BY <1>1, <1>2, <1>4, ShFits
  <2> QED
    BY <2>1, <2>2
<1> HIDE DEF step, call
<1>6. /\ ChainsInv' /\ Forest(heap') /\ Len(heap) \in Nat /\ Len(heap') = n
      /\ heap'[n] = step /\ leaves \subseteq StepIds' /\ n \in StepIds'
      /\ n \in 1 .. Len(heap')
  <2>1. /\ ChainsInv' /\ Forest(heap') /\ Len(heap) \in Nat /\ Len(heap') = n
        /\ heap'[n] = step /\ leaves \subseteq StepIds' /\ n \in StepIds'
    BY <1>5, GrowingKeeps
  <2> QED
    BY <2>1 DEF StepIds
<1>7. /\ \A o \in objects : o.tool \in Tools /\ SharesIn(heap', o.installed, o.of)
      /\ \A x, of : SharesIn(heap, x, of) => SharesIn(heap', x, of)
  BY <1>5, GrowingKeeps
<1>8. "of" \in DOMAIN making => SharesIn(heap', n, making.of)
  <2> SUFFICES ASSUME "of" \in DOMAIN making PROVE SharesIn(heap', n, making.of)
    OBVIOUS
  <2>1. SharesIn(heap', cursor, making.of) /\ heap'[n].parent = cursor
    BY <1>2, <1>5, <1>6, <1>7
  <2>2. cursor # NoStep
    BY <1>2, <1>6 DEF StepIds, NoStep
  <2>3. heap'[n].cmd = "layer"
    BY <1>4, <1>5, <1>6
  <2> HIDE DEF n
  <2> QED
    BY <1>6, <2>1, <2>2, <2>3, SharesThroughLayer
<1>9. CASE Len(todo) = 1
  <2> DEFINE of == IF "of" \in DOMAIN making THEN making.of ELSE n
             o == [tool |-> making.tool, spawns |-> making.spawns, installed |-> n, of |-> of]
  <2>1. objects' = objects \cup {o}
    BY <1>1, <1>9 DEF MakeStep
  <2>2. todo' = <<>>
    BY <1>1, <1>3, <1>9
  <2>3. SharesIn(heap', n, of)
    <3>1. SharesIn(heap', n, n)
      BY <1>6, SharesItself
    <3> QED
      BY <1>8, <3>1
  <2>4. o.tool = making.tool /\ o.installed = n /\ o.of = of
    OBVIOUS
  <2> HIDE DEF o, of
  <2>5. ObjectsInv'
    <3>1. \A x \in objects' : x.tool \in Tools /\ SharesIn(heap', x.installed, x.of)
      BY <1>2, <1>7, <2>1, <2>3, <2>4
    <3> QED
      BY <3>1 DEF ObjectsInv
  <2>6. MakingInv' /\ LeavesInv'
    BY <1>1, <1>6, <2>2, EmptySeq DEF MakingInv, LeavesInv
  <2> QED
    BY <1>6, <2>5, <2>6 DEF ToolchainsInv
<1>10. CASE Len(todo) # 1
  <2>1. objects' = objects /\ making' = making
    BY <1>1, <1>10 DEF MakeStep
  <2>2. ObjectsInv'
    BY <1>7, <2>1 DEF ObjectsInv
  <2>3. DOMAIN todo' = 1 .. Len(todo) - 1 /\ todo' \in Seq(Call)
    BY <1>1, <1>3, LenProperties
  <2>4. ASSUME NEW i \in DOMAIN todo'
        PROVE  /\ todo'[i].cmd # "apt" /\ todo'[i].image = None
               /\ "of" \in DOMAIN making => todo'[i].cmd = "layer"
    <3>1. i + 1 \in DOMAIN todo /\ i + 1 # 1 /\ todo'[i] = todo[i + 1]
      BY <1>1, <1>3, <2>3
    <3> QED
      BY <1>2, <3>1
  <2>5. MakingInv'
    BY <1>1, <1>2, <1>6, <1>8, <2>1, <2>3, <2>4 DEF MakingInv
  <2>6. LeavesInv'
    BY <1>1, <1>6 DEF LeavesInv
  <2> QED
    BY <1>6, <2>2, <2>5, <2>6 DEF ToolchainsInv
<1> QED
  BY <1>9, <1>10

LEMMA WriteKeeps ==
  ASSUME ToolchainsInv, Write
  PROVE  ToolchainsInv'
<1>1. todo' = <<>> /\ objects' = objects /\ leaves' = leaves /\ ChainsInv
  BY DEF Write, UserTurn, ToolchainsInv
<1>2. CASE Scratch
  BY <1>1, <1>2, ScratchFits, IdleGrowingKeeps
<1>3. ASSUME NEW img \in RootImages, BaseImage(img)
      PROVE  ToolchainsInv'
  BY <1>1, <1>3, BaseImageFits, IdleGrowingKeeps
<1>4. ASSUME NEW p \in StepIds, Fork(p, None)
      PROVE  ToolchainsInv'
  BY <1>1, <1>4, ForkFits, IdleGrowingKeeps
<1>5. ASSUME NEW p \in StepIds, NEW cache \in {None, "forever"},
             Sh(p, "user", None, cache, None, None)
      PROVE  ToolchainsInv'
  <2>1. /\ "user" \in Roles /\ "user" \notin Setup /\ cache \in Opt(PolicyKinds)
        /\ None \in Opt(StepImages)
    BY DEF Roles, Setup, Opt, PolicyKinds
  <2>2. Fits(ShStep(p, "user", cache, None)) /\ Alloc(ShStep(p, "user", cache, None))
    BY <1>1, <1>5, <2>1, ShFits DEF Setup
  <2> QED
    BY <1>1, <2>2, IdleGrowingKeeps
<1> QED
  BY <1>2, <1>3, <1>4, <1>5 DEF Write

(* What is begun is finished before the pipeline returns.                  *)
NothingInTheMaking == stage # "build" => todo = <<>>

LEMMA MakingIsFinished == NothingInTheMaking /\ [Next]_vars => NothingInTheMaking'
<1> SUFFICES ASSUME NothingInTheMaking, [Next]_vars PROVE NothingInTheMaking'
  OBVIOUS
<1>1. CASE Write \/ ReturnFromPipeline \/ Render \/ Ended \/ UNCHANGED vars
  BY <1>1 DEF NothingInTheMaking, Write, UserTurn, ReturnFromPipeline, Render, End, Ended, vars
<1>2. CASE MakeStep
  BY <1>2 DEF NothingInTheMaking, MakeStep
<1>3. ASSUME NEW tool, NEW base, NEW image, CallFactory(tool, base, image)
      PROVE  NothingInTheMaking'
  BY <1>3 DEF NothingInTheMaking, CallFactory, UserTurn
<1>4. ASSUME NEW o, Spawn(o)
      PROVE  NothingInTheMaking'
  BY <1>4 DEF NothingInTheMaking, Spawn, UserTurn
<1>5. ASSUME NEW o, NEW cache, Act(o, cache)
      PROVE  NothingInTheMaking'
  BY <1>5 DEF NothingInTheMaking, Act, UserTurn
<1>6. ASSUME NEW o, UnwrapStep(o) \/ UnwrapInstalled(o) \/ UnwrapByAction(o) \/ RefuseItem(o)
      PROVE  NothingInTheMaking'
  BY <1>6 DEF NothingInTheMaking, UnwrapStep, UnwrapInstalled, UnwrapByAction, TakeLeaf,
              RefuseItem, End
<1> QED
  BY <1>1, <1>2, <1>3, <1>4, <1>5, <1>6 DEF Next

(* An action on an object, with the caller's cache.                        *)
LEMMA ActionKeeps ==
  ASSUME ToolchainsInv, NEW o \in objects, NEW cache \in {None, "forever"},
         Sh(o.installed, "action", None, cache, None, None),
         todo' = <<>>, objects' = objects,
         leaves' = leaves \/ leaves' = leaves \cup {Len(heap) + 1}
  PROVE  ToolchainsInv'
<1>1. /\ "action" \in Roles /\ "action" \notin Setup /\ "action" # "apt"
      /\ cache \in Opt(PolicyKinds) /\ None \in Opt(StepImages)
  BY DEF Roles, Setup, Opt, PolicyKinds
<1>2. o.installed \in StepIds /\ ChainsInv
  BY DEF ToolchainsInv, ObjectsInv, SharesIn, StepIds
<1>3. Fits(ShStep(o.installed, "action", cache, None)) /\ Alloc(ShStep(o.installed, "action", cache, None))
  BY <1>1, <1>2, ShFits
<1> QED
  BY <1>3, IdleGrowingKeeps

LEMMA ToolchainsStep ==
  ASSUME ToolchainsInv, NothingInTheMaking, [Next]_vars
  PROVE  ToolchainsInv'
<1>0. /\ \A o \in objects : o.tool \in Tools /\ SharesIn(heap, o.installed, o.of)
      /\ leaves \subseteq StepIds
  BY DEF ToolchainsInv, ObjectsInv, LeavesInv
<1>1. CASE Write
  BY <1>1, WriteKeeps
<1>2. ASSUME NEW tool \in Tools, NEW base \in StepIds \cup {NoStep}, NEW image \in Opt(StepImages),
             CallFactory(tool, base, image)
      PROVE  ToolchainsInv'
  BY <1>2, FactoryKeeps
<1>3. CASE MakeStep
  BY <1>3, MakeStepKeeps
<1>4. ASSUME NEW t \in objects, Spawn(t)
      PROVE  ToolchainsInv'
  BY <1>4, SpawnKeeps
<1>5. ASSUME NEW o \in objects, NEW cache \in {None, "forever"}, Act(o, cache)
      PROVE  ToolchainsInv'
  BY <1>5, ActionKeeps DEF Act, UserTurn
<1>6. ASSUME UNCHANGED <<heap, todo, cursor, making, objects, leaves>>
      PROVE  ToolchainsInv'
  BY <1>0, <1>6, RestingKeeps DEF LeavesInv, StepIds
<1>7. ASSUME NEW s \in StepIds, UnwrapStep(s)
      PROVE  ToolchainsInv'
  <2>1. /\ heap' = heap /\ todo' = todo /\ cursor' = cursor /\ making' = making
        /\ objects' = objects /\ leaves' = leaves \cup {s}
    BY <1>7 DEF UnwrapStep, TakeLeaf
  <2>2. LeavesInv'
    BY <1>0, <2>1 DEF LeavesInv, StepIds
  <2> QED
    BY <1>0, <2>1, <2>2, RestingKeeps
<1>8. ASSUME NEW o \in objects, UnwrapInstalled(o)
      PROVE  ToolchainsInv'
  <2>1. /\ heap' = heap /\ todo' = todo /\ cursor' = cursor /\ making' = making
        /\ objects' = objects /\ leaves' = leaves \cup {o.installed}
    BY <1>8 DEF UnwrapInstalled, TakeLeaf
  <2>2. LeavesInv'
    BY <1>0, <2>1 DEF LeavesInv, StepIds, SharesIn
  <2> QED
    BY <1>0, <2>1, <2>2, RestingKeeps
<1>9. ASSUME NEW o \in objects, UnwrapByAction(o)
      PROVE  ToolchainsInv'
  <2>1. /\ Sh(o.installed, "action", None, None, None, None) /\ todo' = <<>>
        /\ objects' = objects /\ leaves' = leaves \cup {Len(heap) + 1}
    BY <1>9 DEF UnwrapByAction, TakeLeaf, NothingInTheMaking
  <2> QED
    BY <2>1, ActionKeeps
<1>10. ASSUME NEW o \in objects, RefuseItem(o)
       PROVE  ToolchainsInv'
  BY <1>6, <1>10 DEF RefuseItem, End
<1>11. CASE ReturnFromPipeline \/ Render \/ Ended \/ UNCHANGED vars
  BY <1>6, <1>11 DEF ReturnFromPipeline, Render, End, Ended, vars
<1> QED
  BY <1>1, <1>2, <1>3, <1>4, <1>5, <1>7, <1>8, <1>9, <1>10, <1>11 DEF Next


LEMMA InitToolchains ==
  ASSUME Init
  PROVE  ToolchainsInv /\ NothingInTheMaking
<1>1. /\ heap = <<>> /\ stage = "build" /\ todo = <<>> /\ objects = {} /\ leaves = {}
  BY DEF Init, BuildInit
<1>2. StepIds = {}
  BY <1>1 DEF StepIds
<1>3. ChainsInv
  BY <1>1, <1>2, EmptySeq DEF ChainsInv, WellFormed, RootsBearImages, AptOnScratch, SetupImages,
                              SetupHasKeys
<1>4. ObjectsInv /\ MakingInv /\ LeavesInv
  BY <1>1, EmptySeq DEF ObjectsInv, MakingInv, LeavesInv
<1> QED
  BY <1>1, <1>3, <1>4 DEF ToolchainsInv, NothingInTheMaking

LEMMA ToolchainsKeepInv == Spec => []ToolchainsInv
<1>1. Init => ToolchainsInv /\ NothingInTheMaking
  BY InitToolchains
<1>2. ToolchainsInv /\ NothingInTheMaking /\ [Next]_vars => (ToolchainsInv /\ NothingInTheMaking)'
  BY ToolchainsStep, MakingIsFinished
<1> QED
  BY <1>1, <1>2, PTL DEF Spec

(* On a scratch or a root there is nothing above, and no command below.    *)
LEMMA NoCommandAbove ==
  ASSUME ChainsInv, NEW s \in StepIds, Parent(s) \in StepIds,
         heap[Parent(s)].cmd = None, Parent(Parent(s)) = NoStep
  PROVE  CommandsAbove(s) = {}
<1>1. Forest(heap)
  BY ForestOfSteps DEF ChainsInv
<1>2. AboveIn(heap, s) \subseteq {Parent(s)}
  BY <1>1, AboveParent DEF StepIds, Parent
<1>3. Above(s) \subseteq {Parent(s)}
  BY <1>2, AboveIsIn
<1> QED
  BY <1>3 DEF CommandsAbove, IsCommand

(***************************************************************************)
(* No Step a toolchain makes for its setup carries an image that would be  *)
(* ignored: not the factory's, and none inherited from a base.             *)
(***************************************************************************)
THEOREM SetupImagesCount == Spec => []NoImageIsIgnored
<1>1. ASSUME ChainsInv, NEW s \in StepIds, heap[s].cmd \in Setup, heap[s].image # None
      PROVE  CommandsAbove(s) = {}
  <2>1. Parent(s) \in StepIds /\ heap[Parent(s)].cmd = None /\ Parent(Parent(s)) = NoStep
    BY <1>1 DEF ChainsInv, SetupImages
  <2> QED
    BY <1>1, <2>1, NoCommandAbove
<1>2. ToolchainsInv => NoImageIsIgnored
  BY <1>1 DEF ToolchainsInv, NoImageIsIgnored
<1> QED
  BY <1>2, ToolchainsKeepInv, PTL

(***************************************************************************)
(* The projects of a toolchain stand on its install Step, and nothing is   *)
(* installed between.                                                      *)
(***************************************************************************)
THEOREM ProjectsShareOneInstall == Spec => []ProjectsShareInstall
<1>1. ToolchainsInv => ProjectsShareInstall
  <2> SUFFICES ASSUME ToolchainsInv, NEW o \in objects
               PROVE  /\ o.of \in Above(o.installed) \cup {o.installed}
                      /\ \A s \in Above(o.installed) \cup {o.installed} :
                           heap[s].cmd = "install" => s <= o.of
    BY DEF ProjectsShareInstall
  <2>1. SharesIn(heap, o.installed, o.of)
    BY DEF ToolchainsInv, ObjectsInv
  <2>2. Above(o.installed) = AboveIn(heap, o.installed)
    BY AboveIsIn
  <2> QED
    BY <2>1, <2>2 DEF SharesIn
<1> QED
  BY <1>1, ToolchainsKeepInv, PTL

(***************************************************************************)
(* Where a render fails on an uncached parent, user code wrote that        *)
(* parent: every Step of a toolchain's own has a key.                      *)
(***************************************************************************)
THEOREM StrandedByTheUser == Spec => []UncachedParentIsUsers
<1>1. ASSUME ToolchainsInv, NEW s \in Reached, Stranded(s)
      PROVE  heap[Nearest(s)].cmd \in {"user", "action"}
  <2>1. /\ ChainsInv /\ Forest(heap) /\ heap \in Seq(Step) /\ Len(heap) \in Nat
        /\ leaves \subseteq StepIds
    BY <1>1, ForestOfSteps DEF ToolchainsInv, ChainsInv, LeavesInv
  <2>2. \A x \in StepIds : Above(x) \subseteq StepIds
    <3> TAKE x \in StepIds
    <3>1. AboveIn(heap, x) \subseteq 1 .. x - 1
      BY <2>1, AboveIsOlder DEF StepIds
    <3>2. 1 .. x - 1 \subseteq StepIds
      BY <2>1 DEF StepIds
    <3> QED
      BY <3>1, <3>2, AboveIsIn
  <2>3. s \in StepIds
    BY <1>1, <2>1, <2>2 DEF Reached
  <2>4. Nearest(s) \in CommandsAbove(s)
    <3>1. CommandsAbove(s) # {} /\ CommandsAbove(s) \subseteq 1 .. Len(heap)
      BY <1>1, <2>2, <2>3 DEF Stranded, CommandsAbove, StepIds
    <3> DEFINE S == CommandsAbove(s)
    <3> HIDE DEF S
    <3>2. \E a \in S : \A b \in S : b <= a
      BY <2>1, <3>1, YoungestExists DEF S
    <3> QED
      BY <3>2 DEF Nearest, S
  <2>5. Nearest(s) \in StepIds /\ IsCommand(Nearest(s)) /\ ~HasKey(Nearest(s))
    BY <1>1, <2>2, <2>3, <2>4 DEF CommandsAbove, Stranded
  <2> DEFINE a == Nearest(s)
  <2> HIDE DEF a
  <2>6. a \in StepIds /\ heap[a].cmd # None /\ ~HasKey(a) /\ heap[a] \in Step
    BY <2>1, <2>5, ElementOfSeq DEF a, IsCommand, StepIds
  <2>7. heap[a].cmd \in Roles
    BY <2>6, RolesAreCmds DEF Step, Opt
  <2>8. heap[a].cmd \notin Setup
    BY <2>1, <2>6 DEF ChainsInv, SetupHasKeys
  <2> QED
    BY <2>7, <2>8 DEF Roles, Setup, a
<1>2. ToolchainsInv => UncachedParentIsUsers
  BY <1>1 DEF UncachedParentIsUsers
<1> QED
  BY <1>2, ToolchainsKeepInv, PTL
=============================================================================
