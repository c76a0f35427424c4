------------------------------ MODULE MCCareer ------------------------------
(* Career for TLC: two cars whose names are keys, a race and a sprint.        *)
EXTENDS Career, TLC

CarNames == [car \in Cars |-> ToString(car)]
Types == [s \in Sessions |-> CASE s = "r1" -> "race" [] s = "s1" -> "sprint" [] OTHER -> "qualifying"]
OneTeam == [car \in Cars |-> CHOOSE t \in Teams : TRUE]
AB == {<<ToString(DriverA), ToString(DriverB)>>}
Race == <<5, 3>>
Stewards == {<<1, 7>>}
Sprint == <<2, 1>>
=============================================================================
