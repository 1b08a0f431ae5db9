------------------------------ MODULE RowLocks ------------------------------
(***************************************************************************)
(* PostgreSQL row locks, as the modules that model transactions statement  *)
(* by statement use them.  A granted lock is <<transaction, row, mode>>    *)
(* and is held until its transaction ends.                                 *)
(***************************************************************************)
EXTENDS FiniteSets

Modes == {"KEY SHARE", "NO KEY UPDATE", "UPDATE"}

\* Of the lock modes the code takes, those that exclude each other on a row.
Conflicting ==
    LET half == {<<"KEY SHARE", "UPDATE">>, <<"NO KEY UPDATE", "NO KEY UPDATE">>,
                 <<"NO KEY UPDATE", "UPDATE">>, <<"UPDATE", "UPDATE">>}
    IN  half \cup {<<p[2], p[1]>> : p \in half}

\* The transactions other than t whose locks keep it from locking the row in this mode.
HoldersAgainst(granted, t, r, mode) ==
    {l[1] : l \in {k \in granted : k[1] # t /\ k[2] = r /\ <<k[3], mode>> \in Conflicting}}

\* The transactions t waits for, directly or through others; waitsFor gives the direct ones.
Behind(waitsFor, t) ==
    LET closed == {S \in SUBSET DOMAIN waitsFor :
                      waitsFor[t] \subseteq S /\ \A u \in S : waitsFor[u] \subseteq S}
    IN  {u \in DOMAIN waitsFor : \A S \in closed : u \in S}
=============================================================================
