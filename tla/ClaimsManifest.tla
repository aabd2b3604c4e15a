--------------------------- MODULE ClaimsManifest ---------------------------
(***************************************************************************)
(* The claims a box's router makes of itself (claims.py): which edges can  *)
(* wake each agent, and which of them were ever proven.  Three processes   *)
(* that share two files meet here: the operator edits the environment; the *)
(* daemon runs on the environment it booted with, verifies deliveries,     *)
(* wakes agents and records both in the evidence store; and the emitter,   *)
(* at any moment, reads the environment and the evidence file as they are  *)
(* and writes the manifests.  The daemon is stopped, killed and started    *)
(* again, and the file may be behind, old or unreadable.                   *)
(*                                                                         *)
(* Abstracted: what a session does and why it ends (WakePipeline), the     *)
(* order of the queue (WakeScheduler), the freeze and log-grammar claims,  *)
(* and the texts of a claim.                                               *)
(*                                                                         *)
(* A definition whose comment begins with "Fault:" is a plausible mistake  *)
(* in the definition that follows it.                                      *)
(***************************************************************************)
EXTENDS EvidenceStore, RouterConfig

CONSTANTS
  FirstEnvs,   \* the environments the box may start from
  MaxInputs,   \* bound: edits of the environment and deliveries, together
  MaxBoots,    \* bound: boots of the daemon
  MaxQueued    \* bound: wakes queued or in flight for an agent

ASSUME ClaimsAssumption ==
  /\ Agents = Users /\ Routes = RouteNames /\ IsFiniteSet(Entries)
  /\ \A e \in FirstEnvs : e \in Envs /\ Sensible(e)
  /\ MaxInputs \in Nat /\ MaxBoots \in Nat /\ MaxQueued \in Nat

VARIABLES
  env,      \* the environment and the registry file, as they are now
  inputs, boots,
  cfg,      \* what the daemon built when it last booted
  wakes,    \* wakes the daemon accepted and has not ended: agent and route
  due,      \* agents whose pending count changed and has not been reported
  woken,    \* history: the agents that a session of a route woke
  heard     \* history: the routes over which a delivery was verified

boxVars == <<env, inputs, boots, cfg, wakes, due, woken, heard>>
vars == <<storeVars, boxVars>>

Up == phase # "down"

Init ==
  /\ StoreInit
  /\ env \in FirstEnvs
  /\ inputs = 0 /\ boots = 0
  /\ cfg = Built(env)
  /\ wakes = {} /\ due = {}
  /\ woken = {} /\ heard = {}

-----------------------------------------------------------------------------
(* The operator.                                                           *)

Toggled(S, x) == IF x \in S THEN S \ {x} ELSE S \cup {x}

KeysUnder(v) == {x.key : x \in {y \in Entries : y.kind = "harness" /\ y.var = v}}

\* One edit: an entry, a route, a secret, the switch, a key, the allow-list, a number.
Edited(e) ==
  {[e EXCEPT !.registry = Toggled(@, x)] : x \in Entries}
    \cup {[e EXCEPT !.routes = Toggled(@, r)] : r \in RouteNames \cup {"other"}}
    \cup {[e EXCEPT !.secrets = Toggled(@, r)] : r \in RouteNames \cup {"other"}}
    \cup {[e EXCEPT !.fallback = f] : f \in {"on", "off", "garbled"}}
    \cup (UNION {{[e EXCEPT !.own[v] = k] : k \in KeysUnder(v) \cup {"unset", "blank"}} : v \in Vars})
    \cup {[e EXCEPT !.actors = Toggled(@, x)] : x \in {"founder", "captain"}}
    \cup {[e EXCEPT !.numbers = ~@]}

Edit ==
  /\ inputs < MaxInputs
  /\ env' \in {e \in Edited(env) : e # env /\ Sensible(e)}
  /\ inputs' = inputs + 1
  /\ UNCHANGED <<storeVars, boots, cfg, wakes, due, woken, heard>>

-----------------------------------------------------------------------------
(* The daemon.                                                             *)

\* create_app: the configuration loads or the program ends; then the store is opened.
Start ==
  /\ boots < MaxBoots
  /\ Boots(env)
  /\ Boot
  /\ boots' = boots + 1
  /\ cfg' = Built(env)
  /\ UNCHANGED <<env, inputs, wakes, due, woken, heard>>

Depth(a) == Cardinality({w \in wakes : w[1] = a})

\* A delivery that verifies is recorded, and its wake queued if it resolves; any other is
\* recorded as rejected.  An unknown route is answered and not recorded.
Receive(r, to, key) ==
  /\ Up /\ inputs < MaxInputs
  /\ r \in cfg.routes
  /\ inputs' = inputs + 1
  /\ IF key \in VerifyingKeys(cfg, r, to)
     THEN \E new \in {{<<e.user, r>> : e \in WokenBy(cfg, r, to)}} :
            /\ \A w \in new : Depth(w[1]) < MaxQueued
            /\ RecordDeliveryAccepted(r)
            /\ wakes' = wakes \cup new
            /\ due' = due \cup {w[1] : w \in new}
            /\ heard' = heard \cup {r}
     ELSE RecordOther /\ UNCHANGED <<wakes, due, heard>>
  /\ UNCHANGED <<env, boots, cfg, woken>>

\* The scheduler's observer passes the pending count on.
Report(a) ==
  /\ Up /\ a \in due
  /\ RecordQueueDepth(a, Depth(a))
  /\ due' = due \ {a}
  /\ UNCHANGED <<env, inputs, boots, cfg, wakes, woken, heard>>

Ended(w) ==
  /\ Up /\ w \in wakes
  /\ wakes' = wakes \ {w}
  /\ due' = due \cup {w[1]}
  /\ UNCHANGED <<env, inputs, boots, cfg, heard>>

\* A session woke the agent, and the store is told.
WakeOk(w) ==
  /\ Ended(w)
  /\ RecordWakeOk(w[1], w[2])
  /\ woken' = woken \cup {w}

\* The wake failed, was refused, or was collapsed, and the store is told so.
WakeNot(w) ==
  /\ Ended(w)
  /\ RecordOther
  /\ UNCHANGED woken

\* The wake was stopped by an operator, its work had ended while it waited, or a stage
\* raised: the store is told nothing.
WakeUntold(w) ==
  /\ Ended(w)
  /\ UNCHANGED storeVars
  /\ UNCHANGED woken

\* What a process that ends takes with it.
Gone ==
  /\ wakes' = {} /\ due' = {}
  /\ UNCHANGED <<env, inputs, boots, cfg, woken, heard>>

Next ==
  \/ Edit \/ Start
  \/ \E r \in RouteNames : \E to \in Recipients(r), key \in KeysFor(r) : Receive(r, to, key)
  \/ \E a \in Agents : Report(a)
  \/ \E w \in wakes : WakeOk(w) \/ WakeNot(w) \/ WakeUntold(w)
  \/ StoreStep /\ UNCHANGED boxVars
  \/ Kill /\ Gone
  \/ PowerCut /\ Gone

Spec == Init /\ [][Next]_vars

-----------------------------------------------------------------------------
(* The emitter, which runs on what it finds now.                           *)

seen == Parsed(disk)

\* A manifest is written only from a configuration that loads.
Emits == Loads(env)

\* One subject for each OS user of the registry, spoken for by its first entry.
Subjects == {e.user : e \in env.registry}

\* The registered routes of one population, real or manufactured, that reach the agent.
ArmedRoutes(now, a, synthetic) ==
  LET kinds == ResolvableBy(now.registry, Owner(now.registry, a))
  IN  {r \in now.routes : Synthetic(r) = synthetic /\ RecipientKind[r] \in kinds}

\* The pending count of the queued-wake edge, which is listed unless it is 0.
QueuedEdge(a) == seen.queued[a]

\* Fault: an edge is proven by any wake of its agent.
RouteProofOfAgent(a, r) == \E q \in Routes : <<a, q>> \in seen.proven

\* last_ok_at of by_route.<route>: the claim of an edge, and of an exerciser, points at it.
RouteProof(a, r) == <<a, r>> \in seen.proven

\* last_ok_at of the agent, whatever the route.
AgentProof(a) == \E r \in Routes : <<a, r>> \in seen.proven

SinkProof(r) == r \in seen.accepted

-----------------------------------------------------------------------------
(* Properties.                                                             *)

TypeOK ==
  /\ StoreTypeOK
  /\ env \in Envs /\ inputs \in 0..MaxInputs /\ boots \in 0..MaxBoots
  /\ wakes \subseteq Agents \X Routes /\ due \subseteq Agents
  /\ woken \subseteq Agents \X Routes /\ heard \subseteq Routes

\* No ghost and no litter: with no flush under way or failed, a reader of the file finds
\* what this process has proven and, unless a change is still to be reported, its own
\* pending counts, whatever a process that was killed left there; and of the temporary
\* files only those that nobody could unlink are left.
FlushedMeansSettled ==
  phase = "idle" =>
    /\ temps <= stuck
    /\ ~behind => /\ seen.proven = doc.proven /\ seen.accepted = doc.accepted
                  /\ \A a \in Agents \ due : QueuedEdge(a) = Depth(a)

\* A key that is provisioned for one agent never verifies a delivery to another; the
\* shared one verifies only for an agent without its own, and for nobody once the fallback
\* is retired: the running daemon, whatever edits it was booted after.
OwnKeyOnly ==
  Up /\ "basecradle" \in cfg.routes =>
    /\ \A e \in Harness(cfg.registry) : \A k \in Select(cfg, e.uuid) :
         k = e.key \/ (k = "basecradle" /\ cfg.keyring[e.uuid] = "unset")
    /\ ~cfg.fallback => \A to \in Recipients("basecradle") :
         "basecradle" \notin Select(cfg, to)

\* No paper edge: the manifest lists a route as an edge of an agent exactly if it is real
\* and a daemon that booted now would take some delivery over it, verify it with a key it
\* holds, and resolve it to that agent.  (An edge of a shadowed entry of another kind is
\* left out: the first entry speaks for the OS user.)
EdgesReach ==
  Emits =>
    LET now == Built(env)
        Reach(e, r) == \E to \in Recipients(r) :
                          VerifyingKeys(now, r, to) # {} /\ e \in WokenBy(now, r, to)
    IN  \A a \in Subjects, r \in RouteNames :
          LET armed == r \in ArmedRoutes(now, a, FALSE) IN
          /\ armed => ~Synthetic(r) /\ r \in now.routes
                       /\ \E e \in env.registry : e.user = a /\ Reach(e, r)
          /\ ~Synthetic(r) /\ r \in now.routes /\ Reach(Owner(env.registry, a), r) => armed

\* A claim is earned: whatever was edited, however often the daemon was killed, and
\* whatever the power left of the file, an edge reads as proven only if a session of that
\* very route woke that agent (a probe never proves a real edge, nor one route another),
\* an agent only if some session woke it, and a sink only if a delivery verified over it.
ClaimIsEarned ==
  Emits =>
    LET now == Built(env) IN
    /\ \A a \in Subjects :
         /\ AgentProof(a) => \E r \in Routes : <<a, r>> \in woken
         /\ \A r \in ArmedRoutes(now, a, FALSE) \cup ArmedRoutes(now, a, TRUE) :
              RouteProof(a, r) => <<a, r>> \in woken
    /\ \A r \in now.routes : SinkProof(r) => r \in heard

=============================================================================
