------------------------------ MODULE AutoForma ------------------------------
(***************************************************************************)
(* The auto-forma planner: the polarities, and if need be the rearranged   *)
(* mods, that bring every variant of a build under its capacity.           *)
(*                                                                         *)
(* A plan is searched in stages: other polarities for the mods' own slots  *)
(* (stage 1), polarities and a rearrangement (2), the same with Omni Forma *)
(* (3).  When stage 1 fails, a greedy partial fix is offered first.  Where *)
(* the searches meet several plans of one cost, the model takes any.       *)
(***************************************************************************)
EXTENDS SlotRules

CONSTANTS
    MaxNewFormas    \* MAX_K: new formas stages 2 and 3 try at most

ASSUME PlanAssumption == MaxNewFormas \in Nat

\* What the planner is given: every variant's mods and the formas they share.
Fits(builds, forma) == \A v \in DOMAIN builds : headroom(builds[v], forma) >= 0

\* Polarities that can be asked for: a mod of an unspecific polarity asks none.
wanted(builds, S) ==
    {ModPolarity[m] : m \in UNION {{builds[v][s].mod : s \in S \cap Filled(builds[v])} :
                                       v \in DOMAIN builds}} \ {"any", "universal"}

-----------------------------------------------------------------------------
(* Stage 1: formas only                                                     *)

\* Keep the slot as it is, or give it the polarity of a mod some variant has there.
slotSpec(builds, forma, s) == {forma[s]} \cup wanted(builds, {s})

\* What the slots that ask for a polarity can be given.
assignments(builds, forma) ==
    LET asked == {s \in Slots : wanted(builds, {s}) # {}}
        spec  == [s \in asked |-> slotSpec(builds, forma, s)]
    IN  {[s \in Slots |-> IF s \in asked THEN f[s] ELSE forma[s]] :
            f \in {f \in [asked -> UNION {spec[s] : s \in asked}] :
                      \A s \in asked : f[s] \in spec[s]}}

\* The feasible assignments of the lowest Forma count.
stage1(builds, forma) ==
    LET fitting == {f \in assignments(builds, forma) : Fits(builds, f)}
        cheapest == Min({calculateFormaCount(f) : f \in fitting})
    IN  {f \in fitting : calculateFormaCount(f) = cheapest}

\* The steps of a plan: a forma is added or changed, never removed.
steps(before, after) ==
    [s \in Slots |-> IF after[s] = Empty THEN before[s] ELSE after[s]]

-----------------------------------------------------------------------------
(* Greedy partial fix                                                       *)

worst(builds, forma) == Min({headroom(builds[v], forma) : v \in DOMAIN builds})

\* Mutant: only the worst variant counts.
better_worst(builds, start, forma) ==
    {g \in {[forma EXCEPT ![s] = p] : s \in Slots, p \in Polarities} :
        /\ \E s \in Slots : g[s] # forma[s] /\ g[s] \in wanted(builds, {s})
        /\ worst(builds, g) > worst(builds, forma)}

\* One more forma that helps the worst variant and leaves none worse off
\* than it started.
better(builds, start, forma) ==
    {g \in {[forma EXCEPT ![s] = p] : s \in Slots, p \in Polarities} :
        /\ \E s \in Slots : g[s] # forma[s] /\ g[s] \in wanted(builds, {s})
        /\ worst(builds, g) > worst(builds, forma)
        /\ \A v \in DOMAIN builds : headroom(builds[v], g) >= headroom(builds[v], start)}

Passes == 12

bestEffort(builds, start) ==
    LET pass[n \in 0..Passes] ==
          IF n = 0 THEN start
          ELSE LET f == pass[n - 1]
                   improved == better(builds, start, f)
               IN  IF worst(builds, f) >= 0 \/ improved = {} THEN f
                   ELSE CHOOSE g \in improved :
                            \A h \in improved : worst(builds, h) <= worst(builds, g)
    IN  pass[Passes]

-----------------------------------------------------------------------------
(* Stages 2 and 3: rearrangement and Omni Forma                             *)

\* The slots that share a bucket of candidate polarities with s.
likeSlots(s) ==
    {t \in Slots : SlotKind[t] = SlotKind[s] \/ (isNormal(t) /\ isNormal(s))}

\* Slots that a plan may give a new polarity.
formable(builds) ==
    {s \in Slots :
        \/ SlotKind[s] = "aura" \/ consumesDrain(s)
        \/ /\ SlotKind[s] = "exilus" \/ (SlotKind[s] = "stance" /\ ~LockedStance)
           /\ \/ Innate[s] # Empty
              \/ \E v \in DOMAIN builds : builds[v][s] # Empty}

candidates(builds, forma, omni) ==
    {c \in formable(builds) \X Polarities :
        /\ c[2] # forma[c[1]]
        /\ \/ c[2] \in wanted(builds, likeSlots(c[1]))
           \/ omni /\ c[2] = "any"}

\* The formas that differ from the current ones in k slots, by candidates.
withNewFormas(builds, forma, omni, k) ==
    {[s \in Slots |-> IF \E c \in combo : c[1] = s
                      THEN (CHOOSE c \in combo : c[1] = s)[2] ELSE forma[s]] :
        combo \in {combo \in kSubset(k, candidates(builds, forma, omni)) :
                      \A c, d \in combo : c[1] = d[1] => c = d}}

movable(s) == isNormal(s) /\ consumesDrain(s)

\* A variant's mods after those in `from` went to the slots `to` gives them.
moved(placed, to) ==
    [s \in Slots |->
        IF ~movable(s) THEN placed[s]
        ELSE IF \E t \in DOMAIN to : to[t] = s
        THEN placed[CHOOSE t \in DOMAIN to : to[t] = s] ELSE Empty]

permutations(placed) ==
    LET from == {s \in Filled(placed) : movable(s)}
    IN  {moved(placed, to) :
            to \in {to \in [from -> {s \in Slots : movable(s)}] :
                       \A s, t \in from : to[s] = to[t] => s = t}}

\* A variant that fits stays as it is; one mod has nowhere better to go.
tryArrangeVariant(placed, forma) ==
    IF headroom(placed, forma) >= 0 THEN {placed}
    ELSE IF Cardinality({s \in Filled(placed) : movable(s)}) <= 1 THEN {}
    ELSE {arranged \in permutations(placed) : headroom(arranged, forma) >= 0}

arrangements(builds, forma) ==
    {arranged \in [DOMAIN builds -> UNION {tryArrangeVariant(builds[v], forma) : v \in DOMAIN builds}] :
        \A v \in DOMAIN builds : arranged[v] \in tryArrangeVariant(builds[v], forma)}

\* As few new formas as can do.
searchWithRearrangement(builds, forma, omni) ==
    LET feasible(k) == {f \in withNewFormas(builds, forma, omni, k) :
                          \A v \in DOMAIN builds : tryArrangeVariant(builds[v], f) # {}}
        sizes == {k \in 0..Min({MaxNewFormas, Cardinality(candidates(builds, forma, omni))}) :
                    feasible(k) # {}}
    IN  IF sizes = {} THEN {}
        ELSE UNION {{[forma |-> steps(forma, f), builds |-> arranged] :
                        arranged \in arrangements(builds, f)} : f \in feasible(Min(sizes))}
=============================================================================
