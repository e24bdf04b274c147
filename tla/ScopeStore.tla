------------------------------- MODULE ScopeStore -------------------------------
(***************************************************************************)
(* What the scope files promise to those who keep guilds in them: a guild  *)
(* that is in a scope stays there and a file stays readable, unless the    *)
(* operator edits the file or two writers had it in hand at once.          *)
(***************************************************************************)
EXTENDS Integers

CONSTANTS
  Scopes, Guilds,
  Unreadable   \* A file that no longer holds a mapping.

VARIABLES
  held,        \* The guilds of each scope.
  edits,       \* Edits made by hand.
  contended    \* Scopes that two writers have in hand.

store == <<held, edits, contended>>

Values == (SUBSET Guilds) \cup {Unreadable}

Becomes(s, v) == held' = [held EXCEPT ![s] = v]

Init ==
  /\ held \in [Scopes -> SUBSET Guilds]
  /\ edits = 0 /\ contended = {}

\* A writer that has the file alone adds guilds.
Grow(s) ==
  /\ held[s] # Unreadable
  /\ \E v \in SUBSET Guilds : held[s] \subseteq v /\ Becomes(s, v)
  /\ UNCHANGED edits

\* Anything may come of two at once.
Clash(s) ==
  /\ s \in contended
  /\ \E v \in Values : Becomes(s, v)
  /\ UNCHANGED edits

\* The operator edits a file, or writes a new one for one that cannot be read.
Edit(s) == \E v \in SUBSET Guilds : Becomes(s, v) /\ edits' = edits + 1
Restore(s) == held[s] = Unreadable /\ Becomes(s, {}) /\ UNCHANGED edits

Next ==
  /\ contended' \in SUBSET Scopes
  /\ \/ UNCHANGED <<held, edits>>
     \/ \E s \in Scopes : Grow(s) \/ Clash(s) \/ Edit(s) \/ Restore(s)

Spec == Init /\ [][Next]_store

================================================================================
