---------------------------- MODULE MCScheduler ----------------------------
(* Plans and values for the instances of Scheduler that TLC checks. *)
EXTENDS Scheduler, TLC

CONSTANTS no, yes

MCFlag == (no :> FALSE) @@ (yes :> TRUE)

MCItems == (no :> <<no>>) @@ (yes :> <<yes, no>>)

Step(kind, deps) == [kind |-> kind, deps |-> deps, data |-> deps]

Plan(steps) == [steps |-> steps, output |-> Len(steps)]

\* One module.
Single == Plan(<<Step("module", <<0>>)>>)

\* Two branches of a parallel that share a module; one also takes the input.
Diamond == Plan(<<Step("module", <<0>>), Step("module", <<1, 0>>), Step("module", <<1>>),
                  Step("parallel", <<2, 3>>)>>)

\* A when whose condition is a module that one of its branches uses as well.
Choice == Plan(<<Step("module", <<0>>), Step("module", <<1>>), Step("module", <<0>>),
                 Step("when", <<1, 2, 3>>)>>)

\* A map over the result of a module, and a module that the map only orders.
Fan == Plan(<<Step("module", <<0>>), Step("map_module", <<1>>),
              [kind |-> "module", deps |-> <<0, 2>>, data |-> <<0>>]>>)

\* A module that a branch of a when shares with its surroundings.
Shared == Plan(<<Step("module", <<0>>), Step("when", <<0, 1, 0>>),
                 Step("parallel", <<2, 1>>)>>)

\* A definition that the catalog does not have.
Unlisted == Plan(<<Step("module", <<0>>), Step("module", <<1>>)>>)

MCCatalog == {Single, Diamond, Choice, Fan, Shared}

\* Each plan alone, and a run behind one that the coordinator cannot advance.
MCScenarios ==
  {<<p, Null>> : p \in {Diamond, Choice, Fan}} \cup {<<Unlisted, Single>>}

SharedRun == {<<Shared>>}
=============================================================================
