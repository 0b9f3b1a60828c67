----------------------------- MODULE MCWorkflow -----------------------------
(***************************************************************************)
(* Instances of Workflow: the task graphs over three tasks.                *)
(***************************************************************************)
EXTENDS Workflow, SequencesExt

Task(name, deps, condition) ==
  [name |-> name, jobRef |-> "job", dependsOn |-> deps, condition |-> condition]
Spec(policy, timeout, tasks) ==
  [failPolicy |-> policy, timeoutSeconds |-> timeout, tasks |-> tasks]

Rule(task, field, op, values, number) ==
  [task |-> task, field |-> field, operator |-> op, values |-> values, number |-> number]
When(type, rules) == [type |-> type, rules |-> rules]

\* Every way three tasks can depend on one another, cyclic ones included.
Deps(others) == UNION {SetToSeqs(S) : S \in SUBSET others}
Graphs3 ==
  {Spec("FailFast", 0, <<Task("a", x, NoCondition), Task("b", y, NoCondition),
                         Task("c", z, NoCondition)>>) :
     x \in Deps({"b", "c"}), y \in Deps({"a", "c"}), z \in Deps({"a", "b"})}

\* A single task whose pruned run comes back; a chain under a timeout; a fork
\* whose second branch runs only when the first task failed, and a third task
\* joining the two; a task that reads how long another took, at work beside
\* an unconditional one; a task whose condition compares a phase with a
\* number, which no rule admits; and a cycle.
Single == Spec("FailFast", 0, <<Task("a", <<>>, NoCondition)>>)
Chain == Spec("FailFast", 1, <<Task("a", <<>>, NoCondition), Task("b", <<"a">>, NoCondition)>>)
Rescue ==
  Spec("Continue", 0,
       <<Task("a", <<>>, NoCondition),
         Task("b", <<"a">>, When("all", <<Rule("a", "phase", "in", <<"Failed">>, NoNumber)>>)),
         Task("c", <<"a", "b">>, NoCondition)>>)
Quick ==
  Spec("", 0,
       <<Task("a", <<>>, NoCondition),
         Task("b", <<"a">>, When("any", <<Rule("a", "attempts", "gt", <<>>, <<1>>),
                                          Rule("a", "duration_ms", "ge", <<>>, <<3>>)>>)),
         Task("c", <<"a">>, NoCondition)>>)
Mistyped ==
  Spec("Continue", 0,
       <<Task("a", <<>>, NoCondition),
         Task("b", <<"a">>, When("all", <<Rule("a", "phase", "lt", <<>>, <<3>>)>>))>>)
Cycle == Spec("FailFast", 0, <<Task("a", <<"b">>, NoCondition), Task("b", <<"a">>, NoCondition)>>)

WalkedSpecs == {Single, Chain, Rescue, Quick, Mistyped, Cycle}
RevivedSpecs == {Single}
AllSpecs    == Graphs3 \union WalkedSpecs

=============================================================================
