------------------------------ MODULE MCClaims ------------------------------
(* Instances of ClaimsManifest for TLC: a builder, two harness agents of one OS user,
   and one that shares its OS user with the builder, its uuid with the second and its
   variable with the first. *)
EXTENDS ClaimsManifest, TLC

ruby == [key |-> "ruby", kind |-> "github", user |-> "u1", uuid |-> "none", var |-> "none"]
nova == [key |-> "nova", kind |-> "harness", user |-> "u2", uuid |-> "x", var |-> "V"]
glm  == [key |-> "glm", kind |-> "harness", user |-> "u2", uuid |-> "y", var |-> "W"]
twin == [key |-> "twin", kind |-> "harness", user |-> "u1", uuid |-> "y", var |-> "V"]
odd  == [key |-> "odd", kind |-> "other", user |-> "u2", uuid |-> "none", var |-> "none"]

MCEntries == {ruby, nova, glm, twin, odd}
MCOrder == <<ruby, nova, glm, twin, odd>>

Box == [registry |-> {ruby, nova, glm}, routes |-> RouteNames, secrets |-> RouteNames,
        fallback |-> "on", own |-> [v \in Vars |-> "unset"], actors |-> {"founder"},
        numbers |-> TRUE]

\* Before the cutover to own keys, after it, and a box on which entries share a user.
MCFirstEnvs ==
  {Box,
   [Box EXCEPT !.own = ("V" :> "nova" @@ "W" :> "glm" @@ "T" :> "unset"), !.fallback = "off",
               !.secrets = {"github", "probe"}],
   [Box EXCEPT !.registry = {ruby, twin}, !.own["V"] = "twin"]}

=============================================================================
