---------------------------- MODULE RouterConfig ----------------------------
(***************************************************************************)
(* What the daemon and the command line make of their configuration: the   *)
(* agent registry (config.py), the platform route's keyring                *)
(* (routes/basecradle.py) and the registry of routes (app.py), which all   *)
(* either load or stop the program.                                        *)
(*                                                                         *)
(* An environment is a record: the registry file's entries, the route      *)
(* names listed (unset stands for the default, github alone), the names    *)
(* whose route-wide secret is set, the switch of the shared fallback, the  *)
(* per-recipient key variables, the trusted actors, and whether every      *)
(* number is one and in its range.  A secret is known by who holds it: a   *)
(* route-wide one by the route, an agent's own by the agent's key.         *)
(* Abstracted: an unreadable file, and the fields an entry may lack, which *)
(* stop the program like an entry of an unknown kind.                      *)
(*                                                                         *)
(* A definition whose comment begins with "Fault:" is a plausible mistake  *)
(* in the definition that follows it.                                      *)
(***************************************************************************)
EXTENDS Naturals, Sequences

CONSTANTS
  Entries,  \* what the registry file may hold: [key, kind, user, uuid, var], var the
            \* variable that the key's suffix names
  Order,    \* the entries in the order of the file
  Vars      \* per-recipient key variables that an environment may set

Keys == {e.key : e \in Entries}
Uuids == {e.uuid : e \in {f \in Entries : f.kind = "harness"}}
Users == {e.user : e \in Entries}
RouteNames == {"github", "basecradle", "probe"}

ASSUME ConfigAssumption ==
  /\ Order \in Seq(Entries)
  /\ \A e \in Entries : \E i \in DOMAIN Order : Order[i] = e
  /\ \A e, f \in Entries : e.key = f.key => e = f
  /\ \A e \in Entries : e.kind = "harness" => e.var \in Vars
  /\ Keys \cap (RouteNames \cup {"unset", "blank", "another", "nobody"}) = {}

\* "other" is a name with no route behind it.
Envs ==
  [registry : SUBSET Entries, routes : SUBSET (RouteNames \cup {"other"}),
   secrets : SUBSET (RouteNames \cup {"other"}), fallback : {"on", "off", "garbled"},
   own : [Vars -> Keys \cup {"unset", "blank"}], actors : SUBSET {"founder", "captain"},
   numbers : BOOLEAN]

RecipientKind == [github |-> "repo", basecradle |-> "recipient_uuid", probe |-> "harness_key"]
Synthetic(r) == r = "probe"

-----------------------------------------------------------------------------
(* The agent registry.                                                     *)

Pos(e) == CHOOSE i \in DOMAIN Order : Order[i] = e
First(S) == CHOOSE e \in S : \A f \in S : Pos(e) <= Pos(f)

Harness(reg) == {e \in reg : e.kind = "harness"}

\* _load_agents: an unknown kind, or one uuid for two agents, stops the program.
AgentsLoad(reg) ==
  /\ \A e \in reg : e.kind \in {"github", "harness"}
  /\ \A e, f \in Harness(reg) : e.uuid = f.uuid => e = f

\* Entries that share an OS user are one instance, and the first of the file owns it.
Owner(reg, u) == First({e \in reg : e.user = u})

\* Whom a recipient of this kind resolves to: one entry, or none.
AgentForRecipient(reg, by, value) ==
  CASE by = "repo" -> {e \in reg : e.key = value}
    [] by = "recipient_uuid" -> {e \in Harness(reg) : e.uuid = value}
    [] by = "harness_key" ->
         IF \E e \in reg : e.user = value THEN {Owner(reg, value)} ELSE {}

\* The kinds of recipient that reach this entry: a bare slug is nobody's repo, and an OS
\* user is its owner's.
ResolvableBy(reg, e) ==
  {by \in {"repo", "recipient_uuid", "harness_key"} :
    CASE by = "repo" -> e.kind = "github"
      [] by = "recipient_uuid" -> e.kind = "harness"
      [] by = "harness_key" -> Owner(reg, e.user) = e}

-----------------------------------------------------------------------------
(* The platform route's keys.                                              *)

\* Fault: two agents may share a variable.
DistinctUnchecked(reg) == TRUE

\* The suffix of a variable is a lossy spelling of the agent's key.
DistinctVars(reg) == \A e, f \in Harness(reg) : e.var = f.var => e = f

Provisioned(env, e) == env.own[e.var] \notin {"unset", "blank"}

\* Fault: the fallback may be retired while an agent has no key of its own.
RetirableAnyTime(env) == TRUE

\* A retired fallback with an agent that holds no key would never verify again.
Retirable(env) ==
  env.fallback = "off" => \A e \in Harness(env.registry) : Provisioned(env, e)

\* load_recipient_keyring: what it refuses is misspelt, blank, shared or missing.
KeyringLoads(env) ==
  /\ env.fallback # "garbled"
  /\ DistinctVars(env.registry)
  /\ \A v \in Vars : env.own[v] # "unset" =>
       env.own[v] # "blank" /\ \E e \in Harness(env.registry) : e.var = v
  /\ Retirable(env)

ByRecipient(env) ==
  [x \in Uuids |-> IF \E e \in Harness(env.registry) : e.uuid = x /\ Provisioned(env, e)
                   THEN env.own[(CHOOSE e \in Harness(env.registry) :
                                   e.uuid = x /\ Provisioned(env, e)).var]
                   ELSE "unset"]

\* Assumed of the operator, for no check can see it: a variable that a registered agent
\* reads holds the key of a registered agent that reads it, and not one left behind.
Sensible(e) ==
  \A v \in Vars : LET readers == {x.key : x \in {y \in Harness(e.registry) : y.var = v}}
                 IN  e.own[v] \in Keys /\ readers # {} => e.own[v] \in readers

-----------------------------------------------------------------------------
(* The composition root.                                                   *)

\* The allow-list is there, and lists no captain's bot.
TrustedActorsLoad(env) == env.actors # {} /\ "captain" \notin env.actors

\* A route reads its route-wide secret unless it says that it reads none.
RequiresRouteSecret(env, r) == r = "basecradle" => env.fallback # "off"

\* load_config and build_registry, which the emitter runs as the daemon does.
Loads(env) ==
  /\ AgentsLoad(env.registry)
  /\ env.routes # {}
  /\ "github" \in env.routes => TrustedActorsLoad(env)
  /\ "basecradle" \in env.routes => KeyringLoads(env)
  /\ \A r \in env.routes : r \in env.secrets \/ ~RequiresRouteSecret(env, r)

\* The daemon also needs its numbers: the breaker's, the dedup's, the lanes.
Boots(env) == Loads(env) /\ env.numbers

\* What is kept of it: only a name with a route is registered.
Built(env) ==
  [registry |-> env.registry,
   routes |-> env.routes \cap RouteNames,
   secrets |-> env.secrets \cap env.routes,
   keyring |-> IF "basecradle" \in env.routes THEN ByRecipient(env)
               ELSE [x \in Uuids |-> "unset"],
   fallback |-> "basecradle" \in env.routes => env.fallback # "off"]

-----------------------------------------------------------------------------
(* Verification.                                                           *)

\* RecipientKeyring.select: the recipient's own key, else the shared one while it is
\* armed, else none.
Select(cfg, uuid) ==
  IF uuid \in Uuids /\ cfg.keyring[uuid] # "unset" THEN {cfg.keyring[uuid]}
  ELSE IF cfg.fallback THEN {"basecradle"} \cap cfg.secrets
  ELSE {}

\* The key that a delivery to this recipient has to be signed with.
VerifyingKeys(cfg, r, to) ==
  IF r = "basecradle" THEN Select(cfg, to) ELSE {r} \cap cfg.secrets

WokenBy(cfg, r, to) == AgentForRecipient(cfg.registry, RecipientKind[r], to)

\* What deliveries there may be: to a recipient that some registry knows or to nobody,
\* signed with a secret of the route or another.
Recipients(r) ==
  {"nobody"} \cup CASE r = "github" -> {e.key : e \in {f \in Entries : f.kind = "github"}}
                     [] r = "basecradle" -> Uuids
                     [] r = "probe" -> Users
KeysFor(r) == IF r = "basecradle" THEN {r} \cup Keys ELSE {r, "another"}

=============================================================================
