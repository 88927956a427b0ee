------------------------------ MODULE MCData -------------------------------
(* Levels, expressions and environments, each on its own: a behaviour works  *)
(* on a pair of levels, on an expression or on a store of environments.      *)
EXTENDS Levels, MCExprs, Envs

UV == <<"u", "v">>

\* Levels of at most one constructor over zero or a parameter, each but once of
\* those that differ in the names of the parameters alone.
U == Param("u")
Low == {Zero, U, Succ(Zero), Succ(U)}
         \cup ({"max", "imax"} \X {Zero, U} \X {Zero, U}) \cup {Max(U, Param("v")), IMax(U, Param("v"))}

\* Against those of at most two over one another.
Wide == (Low \X LevelsUpto[3]) \cup (LevelsUpto[3] \X Low)

\* Three constructors: a max over an imax or an imax over a max, on either side.
Plain == LevelsUpto[1] \cup {Succ(l) : l \in LevelsUpto[1]}
Split == {Max(IMax(x, y), z) : x, y \in Plain, z \in LevelsUpto[1]}
           \cup {IMax(x, Max(y, z)) : x, y \in Plain, z \in LevelsUpto[1]}
Pairs == Wide \cup (Plain \X Split) \cup (Split \X Plain)

Crossed == {Zero, Succ(Param("u"))}

\* Two sessions that give the same ids to different environments, one with
\* variables past two frames.
Openings == {<<1, 2, 3, 4, 5>>, <<3, 1, 2>>}

\* The part that a behaviour is not about has nothing left to do.
LevelsIdle == left = Zero /\ right = Zero /\ args = <<>> /\ stage = "used"
ExprsIdle  == expr = Leaf /\ was = Leaf /\ did = <<"nothing">> /\ steps = MaxSteps
EnvsIdle   == /\ envs = Chain(<<>>) /\ env_table = ChainTable(<<>>) /\ prune_dm = FreshDm
              /\ slots = <<>> /\ frames = <<>> /\ nils = <<>>
              /\ held = {} /\ asked = Opening(<<>>) /\ env_steps = MaxEnvSteps

Init ==
  \/ LevelsInit /\ ExprsIdle /\ EnvsIdle
  \/ ExprsInit /\ LevelsIdle /\ EnvsIdle
  \/ EnvsInit /\ LevelsIdle /\ ExprsIdle

Next ==
  \/ LevelsNext /\ UNCHANGED <<exprVars, envVars>>
  \/ ExprsNext /\ UNCHANGED <<levelVars, envVars>>
  \/ EnvsNext /\ UNCHANGED <<levelVars, exprVars>>

Spec == Init /\ [][Next]_<<levelVars, exprVars, envVars>>
=============================================================================
