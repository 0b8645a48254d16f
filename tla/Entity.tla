------------------------------- MODULE Entity -------------------------------
(***************************************************************************)
(* An entity's attributes and timers together, through the operations that *)
(* take both along: it is frozen, migrates, is restored or destroyed       *)
(* (engine/entity/Entity.go, EntityManager.go).                            *)
(***************************************************************************)
EXTENDS Attributes, Timers

\* What the program does with the entity: it works with the attributes or with
\* the timers, which do not touch each other (a bound).
VARIABLE uses

entityVars == <<attrVars, timerVars, uses>>

EntityInit == /\ AttrInit /\ TimersInit
              /\ uses \in {"attributes", "timers"}

\* Operations of the program, between two steps of the main loop.
Program ==
  \/ uses = "attributes" /\ life = "live" /\ AttrOp /\ UNCHANGED timerVars
  \/ uses = "timers" /\ TimerOp /\ UNCHANGED attrVars

\* GetMigrateData, then the entity's process exits or destroyEntity(true).
Leaves == ~misused /\ Depart /\ UNCHANGED attrVars

\* restoreEntity: the attributes are assigned before the client, and no client
\* is told of them.
Returns == Arrive /\ Reassign

\* destroyEntity(false): its clients lose the entity.
Destroyed ==
  /\ ~misused /\ Destroy
  /\ view' = [w \in DOMAIN view |-> Absent]
  /\ UNCHANGED <<content, parent, pkey, owner, flag, path, misused>>

EntityNext ==
  \/ Program /\ UNCHANGED uses
  \/ (Leaves \/ Returns \/ Destroyed) /\ UNCHANGED uses
  \/ uses = "timers" /\ (MainLoop \/ TimePasses) /\ UNCHANGED <<attrVars, uses>>

\* The main loop fires what is due, and time passes.
EntityFairness ==
  /\ WF_entityVars(uses = "timers" /\ MainLoop /\ UNCHANGED <<attrVars, uses>>)
  /\ WF_entityVars(uses = "timers" /\ TimePasses /\ UNCHANGED <<attrVars, uses>>)
EntitySpec == EntityInit /\ [][EntityNext]_entityVars /\ EntityFairness

EntityTypeOK == AttrTypeOK /\ TimersTypeOK
=============================================================================
