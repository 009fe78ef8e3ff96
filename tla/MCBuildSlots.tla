---------------------------- MODULE MCBuildSlots ----------------------------
(* Instances of BuildSlots for TLC: a frame, and a companion weapon, which  *)
(* has neither an Aura nor an Exilus slot.                                  *)
EXTENDS BuildSlots

FrameSlots  == {"aura-0", "stance", "exilus", "normal-0", "normal-1"}
FrameLayout == <<"aura-0", "exilus", "normal-0", "normal-1">>
FrameKind   == [s \in FrameSlots |-> CASE s = "aura-0" -> "aura"
                                       [] s \in {"stance", "exilus"} -> s
                                       [] OTHER -> "normal"]

WeaponSlots  == FrameSlots \ {"aura-0"}
WeaponLayout == <<"normal-0", "normal-1">>
WeaponKind   == [s \in WeaponSlots |-> FrameKind[s]]

NoInnate == [s \in Slots |-> Empty]

\* An ordinary mod, two Exilus-compatible ones, an aura and two Rivens that
\* differ in their polarity.
MCMods     == {"vitality", "drift", "rush", "steel", "riven", "riven2"}
MCModKind  == [m \in Mods |-> CASE m \in {"rush", "drift"} -> "exilus"
                                [] m = "steel" -> "aura"
                                [] OTHER       -> "normal"]
MCPolarity == [m \in Mods |-> IF m \in {"vitality", "steel", "riven2"}
                              THEN "madurai" ELSE "naramon"]
MCDrain    == [m \in Mods |-> CASE m = "vitality" -> 4 [] m = "drift" -> 5
                                [] m = "rush" -> 3 [] m = "steel" -> 2 [] OTHER -> 6]
MCMaxRank  == [m \in Mods |-> IF m = "drift" THEN 1 ELSE 0]

Unranked(m) == [mod |-> m, rank |-> 0, alternate |-> Empty]

Normals(m, n) == [NoMods EXCEPT !["normal-0"] = Unranked(m), !["normal-1"] = Unranked(n)]

\* In the Exilus slot, an Alternate that a swap carried there.
WithRiven ==
    [placed |-> [NoMods EXCEPT !["normal-0"] = Unranked("riven"),
                               !["exilus"] = [Unranked("rush") EXCEPT !.alternate = "vitality"]],
     forma  |-> NoInnate,
     others |-> [v \in Others |-> NoMods]]

\* The slots suit the other variant; the active one would have to exchange
\* its Rivens.
RivensCrosswise ==
    [placed |-> Normals("riven", "riven2"),
     forma  |-> [NoInnate EXCEPT !["normal-0"] = "madurai", !["normal-1"] = "naramon"],
     others |-> [v \in Others |-> Normals("vitality", "drift")]]

OneMod ==
    [placed |-> [NoMods EXCEPT !["normal-0"] = Unranked("vitality")],
     forma  |-> NoInnate,
     others |-> [v \in Others |-> NoMods]]

FrameBuilds  == {RivensCrosswise, WithRiven}
WeaponBuilds == {OneMod}
=============================================================================
