------------------------------ MODULE MCOptions ------------------------------
(* The instance of Options that TLC checks. *)
EXTENDS Options, TLC

MCDefault ==
  [o \in Option |->
     CASE o \in Words -> "auto"
       [] o = "decay" -> 5 [] o = "trail" -> 60 [] o = "buckets" -> 8
       [] o = "columns" -> 0 [] o = "half" -> TRUE [] o = "interval" -> 100]

\* Each option that is here stands for those that are read and written alike.
MCLines ==
  {[key |-> "color", value |-> v] : v \in {"16", "chartreuse"}}
    \cup {[key |-> "columns", value |-> v] : v \in {-1, 2}}
    \cup {[key |-> "buckets", value |-> v] : v \in {0, 8, 10}}
    \cup {[key |-> "half", value |-> v] : v \in {FALSE, Garbage}}
    \cup {[key |-> "interval", value |-> 200],
          [key |-> "colour", value |-> "16"]}

\* A flag with one of these values, or without it.
MayGive(o, values) == {<<>>} \cup {o :> v : v \in values}

MCCommandLines ==
  {a @@ b @@ c @@ d @@ e @@ f :
     a \in MayGive("color", {"256", "mauve"}), b \in MayGive("scale", {"fixed"}),
     c \in MayGive("columns", {-1}), d \in MayGive("buckets", {0, 99}),
     e \in MayGive("half", BOOLEAN), f \in MayGive("interval", {50})}

MCTerminals == {[width |-> 0, height |-> 0], [width |-> 3, height |-> 2],
                [width |-> 9, height |-> 9]}
==============================================================================
