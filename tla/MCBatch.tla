------------------------------- MODULE MCBatch ------------------------------
(* Batches of one and two objects, and a listener that lets no 1 pass, in    *)
(* the middle of four that let everything pass.                              *)
EXTENDS Batch

CONSTANTS o1, o2

MCBatches == {<<o1>>, <<o1, o2>>}
MCInitial == <<"log", "x", "veto", "y", "z">>
MCVetoes == {<<"veto", 1>>}
MCScenarios ==
    {[event |-> "BeforeSave", changes |-> 2, calls |-> 1, faults |-> 0, others |-> 0],
     [event |-> "AfterSave", changes |-> 0, calls |-> 1, faults |-> 1, others |-> 3],
     [event |-> "AfterSave", changes |-> 0, calls |-> 2, faults |-> 1, others |-> 1]}
    \cup {[event |-> e, changes |-> 0, calls |-> 2, faults |-> 0, others |-> 0] :
            e \in {"BeforeCreate", "BeforeDelete"}}

=============================================================================
