------------------------------ MODULE Chronometre -----------------------------
(***************************************************************************)
(* Chronometre (src/bonus/chronometre).  A timestamp is the call that made *)
(* it and the number of the measurement it belongs to; the clock itself is *)
(* abstracted, since only which two of them are subtracted matters.        *)
(***************************************************************************)
EXTENDS Naturals, Sequences, SequencesExt

CONSTANT MaxTimestamps   \* bound on the timestamps kept

VARIABLES _timestamps,
          misused        \* start() or popLastChrono() was called before the
                         \* end() of a measurement, or end() twice

vars == <<_timestamps, misused>>

Init == _timestamps = <<>> /\ misused = FALSE

Running == _timestamps # <<>> /\ Last(_timestamps).call = "start"

createTimestamp(call, number) ==
  /\ Len(_timestamps) < MaxTimestamps
  /\ _timestamps' = Append(_timestamps, [call |-> call, number |-> number])

start ==
  /\ createTimestamp("start", Len(_timestamps))
  /\ misused' = (misused \/ Running)

\* A plausible slip: the test that start() was called is missing.
MutantEnd ==
  IF _timestamps = <<>>
  THEN createTimestamp("end", 0) /\ UNCHANGED misused
  ELSE /\ createTimestamp("end", Last(_timestamps).number)
       /\ misused' = (misused \/ ~Running)

\* end() throws on an empty list only.
end ==
  /\ _timestamps # <<>>
  /\ createTimestamp("end", Last(_timestamps).number)
  /\ misused' = (misused \/ ~Running)

popLastChrono ==
  /\ Len(_timestamps) > 1
  /\ _timestamps' = SubSeq(_timestamps, 1, Len(_timestamps) - 2)
  /\ misused' = (misused \/ Running)

\* The getters throw on an empty list or an odd number of timestamps, else
\* they subtract the last two, whatever calls made them.
Available == _timestamps # <<>> /\ Len(_timestamps) % 2 = 0
getTime == <<_timestamps[Len(_timestamps) - 1], Last(_timestamps)>>

Next == start \/ end \/ popLastChrono

Spec == Init /\ [][Next]_vars

\* While every start() is followed by its end() before anything else, a getter
\* answers exactly when no measurement is running, with the time between the
\* start and the end of the last one that was not removed (chronometre.cpp:
\* 25-43, 49-55).
ElapsedIsPaired ==
  ~misused =>
    /\ Available <=> _timestamps # <<>> /\ ~Running
    /\ Available => /\ getTime[1].call = "start" /\ getTime[2].call = "end"
                    /\ getTime[1].number = getTime[2].number
===============================================================================
