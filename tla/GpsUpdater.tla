----------------------------- MODULE GpsUpdater -----------------------------
(***************************************************************************)
(* The task gpsUpdater and the clock of the node, which it sets at its     *)
(* first acquisition.                                                      *)
(*                                                                         *)
(* now is the true time.  The node reads now + clockOffset: since it       *)
(* booted, or, once the clock is set, the true time in the epoch the task   *)
(* sets it to.  That is not the epoch of DTN time: the seconds between     *)
(* 1970 and 2000 are added to the Unix time where they were to be taken    *)
(* from it, so that the clock counts from 1940.                            *)
(* What the GPS module sends is nondeterministic: a line is useless        *)
(* (empty, not parsed, or not a GPRMC sentence), a GPRMC sentence that     *)
(* says no position is known (invalid), or one with a position (valid).    *)
(* The position itself is left out.                                        *)
(***************************************************************************)
EXTENDS Integers

CONSTANTS
  ReadLimit,        \* useless lines that end a round of reads (10 in the code)
  UnixTime,         \* the Unix time at the true time 0
  From1970To2000,   \* 946684800 s
  HasAccurateClock  \* CONFIG_HasAccurateClock

ASSUME GpsAssumption ==
  /\ ReadLimit \in Nat
  /\ UnixTime \in Nat /\ From1970To2000 \in Nat \ {0}
  /\ From1970To2000 < UnixTime
  /\ HasAccurateClock \in BOOLEAN

VARIABLES
  now,                 \* the true time
  clockOffset,         \* gettimeofday minus the true time
  clockSynced,         \* DTN7::clockSynced
  isFirstAcquisition,  \* local to gpsUpdater: the clock is not set yet
  updaterAt,           \* where gpsUpdater is: waiting, reading, or handling a line
  counter,             \* useless lines of this round, 0 outside it
  timeBase             \* history: how often the clock was started or set

gpsVars == <<clockOffset, clockSynced, isFirstAcquisition, updaterAt, counter,
             timeBase>>

(* What the true time 0 is by a clock that gpsUpdater has set, and in DTN   *)
(* time, the time since 2000.                                              *)
Epoch == UnixTime + From1970To2000
DtnEpoch == UnixTime - From1970To2000

(* gettimeofday, in milliseconds. *)
Clock == now + clockOffset

GpsTypeOK ==
  /\ now \in Nat
  /\ clockOffset \in Int
  /\ clockSynced \in BOOLEAN /\ isFirstAcquisition \in BOOLEAN
  /\ updaterAt \in {"wait", "read", "invalid", "flag"}
  /\ counter \in 0 .. ReadLimit
  /\ timeBase \in Nat

GpsInit ==
  /\ now = 0 /\ clockOffset = 0 /\ timeBase = 0
  /\ clockSynced = FALSE /\ isFirstAcquisition = TRUE
  /\ updaterAt = "wait" /\ counter = 0

(* A restart: the clock counts from 0 again and the task begins anew. *)
GpsRestart ==
  /\ now' = now + 1 /\ clockOffset' = -now' /\ timeBase' = timeBase + 1
  /\ clockSynced' = FALSE /\ isFirstAcquisition' = TRUE
  /\ updaterAt' = "wait" /\ counter' = 0

-----------------------------------------------------------------------------
(* After the interval between updates: flush, and read lines. *)
BeginRound ==
  /\ updaterAt = "wait"
  /\ updaterAt' = "read" /\ counter' = 0
  /\ UNCHANGED <<now, clockOffset, clockSynced, isFirstAcquisition, timeBase>>

(* Faulty: counts again from the start in place of giving up. *)
EndlessUselessLine ==
  /\ updaterAt = "read"
  /\ counter' = IF counter < ReadLimit THEN counter + 1 ELSE 0
  /\ UNCHANGED updaterAt
  /\ UNCHANGED <<now, clockOffset, clockSynced, isFirstAcquisition, timeBase>>

(* readNmeaLine and nmea_parse give a line that is of no use: it is        *)
(* counted, and more than ReadLimit of them end the round.                 *)
UselessLine ==
  /\ updaterAt = "read"
  /\ IF counter < ReadLimit
     THEN counter' = counter + 1 /\ UNCHANGED updaterAt
     ELSE counter' = 0 /\ updaterAt' = "wait"
  /\ UNCHANGED <<now, clockOffset, clockSynced, isFirstAcquisition, timeBase>>

(* An invalid position is not counted: the loop just goes on. *)
InvalidPosition ==
  /\ updaterAt = "read"
  /\ updaterAt' = "invalid"
  /\ UNCHANGED <<now, clockOffset, clockSynced, isFirstAcquisition, counter, timeBase>>

Continue ==
  /\ updaterAt = "invalid"
  /\ updaterAt' = "read"
  /\ UNCHANGED <<now, clockOffset, clockSynced, isFirstAcquisition, counter, timeBase>>

(* The first valid position sets the clock; any ends the round ... *)
ValidPosition ==
  /\ updaterAt = "read"
  /\ counter' = 0
  /\ IF isFirstAcquisition
     THEN /\ clockOffset' = Epoch /\ timeBase' = timeBase + 1
          /\ isFirstAcquisition' = FALSE /\ updaterAt' = "flag"
     ELSE /\ updaterAt' = "wait"
          /\ UNCHANGED <<clockOffset, timeBase, isFirstAcquisition>>
  /\ UNCHANGED <<now, clockSynced>>

(* ... after telling the other tasks that the clock is set now. *)
FlagSynced ==
  /\ updaterAt = "flag"
  /\ clockSynced' = HasAccurateClock
  /\ updaterAt' = "wait"
  /\ UNCHANGED <<now, clockOffset, isFirstAcquisition, counter, timeBase>>

UpdaterStep ==
  \/ BeginRound
  \/ UselessLine
  \/ InvalidPosition
  \/ Continue
  \/ ValidPosition
  \/ FlagSynced

=============================================================================
