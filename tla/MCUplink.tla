------------------------------ MODULE MCUplink ------------------------------
EXTENDS Uplink

World(model, excluded, before, fresh, ages, acts, n) ==
    [model |-> model, excluded |-> excluded, before |-> before, fresh |-> fresh, ages |-> ages,
     acts |-> acts, starts |-> n]

\* Two sessions of a model are left over, one of any age; one left over, with
\* closes that are cut; an excluded provider's and a model no longer in the
\* catalog, with the status poll; and over a restart: who opened a session, a
\* stop, and cut closes.
MCWorlds ==
    {World(<<"m", "m", "m">>, {}, {1, 2}, {3}, {2}, {}, 1),
     World(<<"m", "m", "m">>, {}, {1}, {2}, {1}, {"cut"}, 1),
     World(<<"m", "u", "m">>, {1}, {1, 2}, {3}, {1}, {"poll"}, 1),
     World(<<"m", "m", "m">>, {}, {}, {1}, {}, {"admin", "credit"}, 2),
     World(<<"m", "m", "m">>, {}, {1}, {2}, {}, {"stop"}, 1),
     World(<<"m", "m", "m">>, {}, {}, {1}, {1}, {"cut", "idle"}, 2)}

MCMaxLines == [security |-> 1, ops |-> 2]
MCMaxStarts == [keys |-> 2, audit |-> 2, files |-> 2, reclaim |-> 2]
=============================================================================
