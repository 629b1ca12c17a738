---------------------------- MODULE MCFormFields ----------------------------
(* An instance of FormFields for TLC. *)
EXTENDS FormFields

Row(trigger, time, offset, days, start, end, annual) ==
    [trigger |-> trigger, time |-> time, offset |-> offset, days |-> days,
     start |-> start, end |-> end, annual |-> annual]
Light(bri, col) == [on |-> TRUE, bri |-> bri, col |-> col]

\* A time with seconds, which only another client stores; an offset and a
\* window over the end of the year.
Timed == Row("time", 25230, Null, 127, Null, 2, FALSE)
Sunset == Row("sunset", Null, -30, 65, 2, 1, TRUE)

\* Off, the darkest, the brightest; colours of the sliders and others, one of
\* which they miss by three steps.
MCStored == {[schedule |-> Sunset, action |-> [on |-> FALSE]],
             [schedule |-> Sunset, action |-> Light(127, <<255, 0, 128>>)],
             [schedule |-> Sunset, action |-> Light(128, <<255, 1, 3>>)],
             [schedule |-> Timed, action |-> Light(255, <<10, 20, 30>>)],
             [schedule |-> Timed, action |-> Light(0, <<255, 254, 0>>)]}

MCTimes == {1439, Blank}
MCOffsets == {-721, 15}
=============================================================================
