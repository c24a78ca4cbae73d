--------------------------- MODULE MCCommandIntake ---------------------------
(* Instances of CommandIntake for TLC. *)
EXTENDS CommandIntake, TLC

CONSTANTS o1, a, b, c

Set(id, key, o, ch, on) ==
    [id |-> id, subject |-> "subscription", key |-> key, op |-> <<"set", key>>,
     owner |-> o, form |-> "valid", channel |-> ch, on |-> on]
Malformed(id, key, subject, form) ==
    [id |-> id, subject |-> subject, key |-> key, op |-> <<subject, key>>,
     form |-> form, previous |-> 0, due |-> 1]
RunCommand(id, key, o, run, trigger, window) ==
    [id |-> id, subject |-> "run", key |-> key, op |-> <<"run", key>>, owner |-> o,
     form |-> "valid", run |-> run, trigger |-> trigger, window |-> window]
Occurrence(id, key, previous, due) ==
    [id |-> id, subject |-> "occurrence", key |-> key, op |-> <<"occurrence", key>>,
     form |-> "valid", previous |-> previous, due |-> due]

\* One owner at a limit of two: three channels, one of them off and on again,
\* the last command published twice.
Subscribing ==
    {Set(1, "on a", o1, a, TRUE), Set(2, "off a", o1, a, FALSE),
     Set(3, "on b", o1, b, TRUE), Set(4, "on c", o1, c, TRUE),
     Set(5, "again a", o1, a, TRUE), Set(6, "again a", o1, a, TRUE)}

\* Commands in every form, one unreadable twice under one key.
Malforming ==
    {Malformed(1, "bad", "run", "unreadable"), Malformed(2, "bad", "run", "unreadable"),
     Malformed(3, "worse", "subscription", "invalid"),
     Malformed(4, "lost", "run", "unattributable"),
     Malformed(5, "first", "occurrence", "invalid"),
     RunCommand(6, "mine", o1, <<o1, 106>>, "on_demand", <<0, 1>>)}

\* Two occurrences, the first one longer than the cap, while the subscriptions come and
\* go; and the first one published twice.
Changing == {Set(4, "on a", o1, a, TRUE), Set(5, "on b", o1, b, TRUE),
             Set(6, "off a", o1, a, FALSE)}
Scheduling == {Occurrence(1, "first", 0, 3), Occurrence(3, "second", 3, 4)} \cup Changing
Rescheduling == {Occurrence(1, "first", 0, 3), Occurrence(2, "first", 0, 3)} \cup Changing

\* A run on demand, published twice, and one that reuses its identity under
\* another key.
Requesting ==
    {RunCommand(1, "mine", o1, <<o1, 101>>, "on_demand", <<0, 1>>),
     RunCommand(2, "mine", o1, <<o1, 101>>, "on_demand", <<0, 1>>),
     RunCommand(3, "other", o1, <<o1, 101>>, "on_demand", <<0, 1>>),
     RunCommand(4, "next", o1, <<o1, 104>>, "on_demand", <<1, 2>>)}

\* A scheduled run that claims the natural key of a fanned out one, under an
\* identity of its own.
Claiming ==
    {Set(1, "on a", o1, a, TRUE), Occurrence(2, "first", 0, 1),
     Occurrence(3, "first", 0, 1),
     RunCommand(4, "first", o1, <<o1, 104>>, "scheduled", <<0, 1>>)}

AllTraffic ==
    {Subscribing, Malforming, Scheduling, Rescheduling, Requesting, Claiming}

\* A subscription that arrives while a run is executed.
Overlapping ==
    {{Set(1, "on a", o1, a, TRUE), Set(2, "on b", o1, b, TRUE),
      RunCommand(3, "mine", o1, <<o1, 103>>, "on_demand", <<0, 1>>)}}
=============================================================================
