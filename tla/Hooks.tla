------------------------------- MODULE Hooks --------------------------------
(* The listener registry of hooks.go for one event type, at the level of the *)
(* Go slice that holds it.  triggerEvent copies the slice header under the   *)
(* lock and calls the listeners without it: it walks the array that          *)
(* RegisterListener appends to in place while there is room, and in which    *)
(* UnregisterListener shifts the rest of the listeners one element at a      *)
(* time.  An array the registry no longer uses does not change any more.     *)
EXTENDS Integers, Sequences

CONSTANTS
    Listeners,
    Initial,     \* the listeners registered at the start, in order
    InitialCapacity,   \* of the array that registering them has led to
    NoListener   \* the content of an element that has not been used

ASSUME HookAssumption ==
    /\ Initial \in Seq(Listeners)
    /\ InitialCapacity \in Nat /\ InitialCapacity >= Len(Initial)

VARIABLES
    array,       \* the array of the registry's slice; its length is the capacity
    length,      \* the length of the registry's slice
    shift,       \* the element UnregisterListener moves next, 0 when it does not run
    walk,        \* the walk of a triggerEvent: [len, pos, own]; own is <<>> while it
                 \* shares the registry's array, and pos is 0 when there is none
    due,         \* history: listeners registered when the walk began, but for those
                 \* unregistered from the array it shares and those behind them
    changes      \* how many more times the registry is changed

hookVars == <<array, length, shift, walk, due, changes>>
registryVars == <<array, length, shift, changes>>

NoWalk == [len |-> 0, pos |-> 0, own |-> <<>>]

\* append doubles the capacity of a slice that is not long: 1, 2, 4, ...
Grown(c) == IF c = 0 THEN 1 ELSE 2 * c
Padded(s, c) == [i \in 1 .. c |-> IF i <= Len(s) THEN s[i] ELSE NoListener]

Registered == {array[i] : i \in 1 .. length}

HookInit ==
    /\ array = Padded(Initial, InitialCapacity)
    /\ length = Len(Initial)
    /\ shift = 0
    /\ walk = NoWalk
    /\ due = {}

Unlocked == shift = 0
Change == Unlocked /\ changes > 0 /\ changes' = changes - 1

\* A walk keeps the array the registry leaves behind.
Detach == IF walk.pos > 0 /\ walk.own = <<>> THEN [walk EXCEPT !.own = array] ELSE walk

RegisterListener(l) ==
    /\ Change
    /\ length' = length + 1
    /\ IF length < Len(array)
       THEN /\ array' = [array EXCEPT ![length + 1] = l]
            /\ UNCHANGED walk
       ELSE /\ array' = Padded(Append(array, l), Grown(length))
            /\ walk' = Detach
    /\ UNCHANGED <<shift, due>>

\* The first listener of that identity is removed.  The lock is held until the
\* last element has been moved.
UnregisterListener(l) ==
    /\ Change
    /\ \E i \in 1 .. length :
          /\ array[i] = l /\ \A j \in 1 .. i - 1 : array[j] # l
          /\ shift' = i
          /\ due' = IF walk.own = <<>> THEN due \cap {array[j] : j \in 1 .. i - 1} ELSE due
    /\ UNCHANGED <<array, length, walk>>

Shift ==
    /\ ~Unlocked
    /\ IF shift < length
       THEN /\ array' = [array EXCEPT ![shift] = array[shift + 1]]
            /\ shift' = shift + 1
            /\ UNCHANGED length
       ELSE /\ length' = length - 1
            /\ shift' = 0
            /\ UNCHANGED array
    /\ UNCHANGED <<walk, due, changes>>

ResetListeners ==
    /\ Change
    /\ array' = <<>>
    /\ length' = 0
    /\ walk' = Detach
    /\ UNCHANGED <<shift, due>>

HookChange ==
    \/ \E l \in Listeners : RegisterListener(l) \/ UnregisterListener(l)
    \/ Shift
    \/ ResetListeners

-----------------------------------------------------------------------------
(* The steps of triggerEvent.                                                *)

\* The slice header is copied.
Trigger ==
    /\ Unlocked
    /\ walk' = [len |-> length, pos |-> 1, own |-> <<>>]
    /\ due' = Registered
    /\ UNCHANGED registryVars

Ended == walk.pos > walk.len
Listener == IF walk.own = <<>> THEN array[walk.pos] ELSE walk.own[walk.pos]

\* The listener returns nil, and the next one is called.
Pass ==
    /\ walk' = [walk EXCEPT !.pos = @ + 1]
    /\ UNCHANGED <<registryVars, due>>

\* triggerEvent returns.
Leave ==
    /\ walk' = NoWalk
    /\ due' = {}
    /\ UNCHANGED registryVars

\* The process starts again and registers its listeners.
Restart ==
    /\ array' = Padded(Initial, InitialCapacity)
    /\ length' = Len(Initial)
    /\ shift' = 0
    /\ walk' = NoWalk
    /\ due' = {}
    /\ UNCHANGED changes

=============================================================================
