--------------------------- MODULE GetTimeOfDayCC ---------------------------
(***************************************************************************)
(* gettimeofday_cc of src/linux/gettimeofday_cc.c: wall-clock time from    *)
(* the cycle counter, called from any Java thread through the JNI wrapper  *)
(* of src/freebsd/bamboo_util_GetTimeOfDayCC.c.                            *)
(*                                                                         *)
(* The globals gettimeofday_cc_offset, cpu_speed, initialized and tv_init  *)
(* are set lazily by the first call, with no lock, in four stores each     *)
(* modelled as a step of its own; a call then reads the counter and        *)
(* computes its result in one step.  Time is in microseconds: `now` is the *)
(* real time since the first call could start, the wall clock is           *)
(* WallStart + now, the W-bit cycle counter reads CC0 + now * CpuSpeed     *)
(* modulo 2^W, and get_cpu_speed returns CpuSpeed (MHz, cycles per         *)
(* microsecond).  What get_cpu_speed returns depends on CpuInfo, the state *)
(* of /proc/cpuinfo: missing, without a "cpu MHz" line, or with one.       *)
(***************************************************************************)
EXTENDS Naturals, FiniteSets

CONSTANTS
  Threads,    \* Java threads calling currentTimeMillis
  W,          \* width of the cycle counter in bits (64 in the code)
  CC0,        \* counter value at now = 0
  CpuSpeed,   \* the "cpu MHz" value read from /proc/cpuinfo
  WallStart,  \* wall-clock time at now = 0
  MaxTime,    \* bound on now; MaxTime * CpuSpeed < 2^W keeps it within one wrap
  CpuInfo,    \* "missing", "no MHz" or "MHz"
  ZeroDivUsec \* what (unsigned long long)(diff / 0.0) may give on the builds

ASSUME W \in Nat \ {0} /\ CC0 \in 0 .. 2^W - 1
ASSUME CpuSpeed \in Nat \ {0} /\ WallStart \in Nat
ASSUME MaxTime \in Nat /\ MaxTime * CpuSpeed < 2^W
ASSUME CpuInfo \in {"missing", "no MHz", "MHz"} /\ ZeroDivUsec \subseteq Nat

VARIABLES
  now,          \* real time
  offset,       \* gettimeofday_cc_offset
  cpuSpeed,     \* cpu_speed, 1 until initialised
  initialized,  \* initialized
  tvInit,       \* tv_init, a timeval
  pc,           \* thread -> point reached in gettimeofday_cc
  start,        \* thread -> the real time its call began
  floor,        \* thread -> the latest result returned before its call began
  ret,          \* thread -> what its last currentTimeMillis returned
  lastRet       \* the latest time any call has returned, in ms

vars == <<now, offset, cpuSpeed, initialized, tvInit, pc, start, floor, ret, lastRet>>

Max2 == 2^W
\* get_cpu_speed: 1 when the file cannot be opened; else the value of the
\* last "cpu MHz" line, or the initial 0 when there is none
GetCpuSpeed(info) ==
  CASE info = "missing" -> 1
    [] info = "no MHz"  -> 0
    [] info = "MHz"     -> CpuSpeed

\* Mutant: the counter read without truncation to W bits.
CCNoWrap == CC0 + now * CpuSpeed
\* get_cc: the counter at the current time
CC == (CC0 + now * CpuSpeed) % Max2
\* ~(unsigned long long)0
AllOnes == Max2 - 1

\* Mutant: the wrapped branch subtracts in the wrong order.
DiffSwapped(ccNow, off) ==
  IF ccNow < off THEN off - ccNow ELSE ccNow - off

\* the cycles elapsed since the offset was taken, as the code computes them
Diff(ccNow, off) ==
  IF ccNow < off THEN ccNow + (AllOnes - off) ELSE ccNow - off

\* the elapsed cycles by unsigned modular subtraction, the reference
TrueDiff(ccNow, off) == (ccNow - off + Max2) % Max2

\* a count of microseconds as a struct timeval: tv_sec = usec / 1000000,
\* tv_usec = usec % 1000000 (also what gettimeofday stores)
Split(usec) == [sec |-> usec \div 1000000, usec |-> usec % 1000000]

\* timeradd of <sys/time.h>: the fields added, tv_usec carried into tv_sec
TimerAdd(a, b) ==
  IF a.usec + b.usec >= 1000000
  THEN [sec |-> a.sec + b.sec + 1, usec |-> a.usec + b.usec - 1000000]
  ELSE [sec |-> a.sec + b.sec, usec |-> a.usec + b.usec]

\* Java_bamboo_util_GetTimeOfDayCC_currentTimeMillis: the timeval in ms
Millis(tv) == (tv.sec * 1000000 + tv.usec) \div 1000

\* Mutant: the result leaves out tv_init (timeradd dropped).
ResultsNoBase(d) ==
  IF cpuSpeed = 0 THEN {Millis(Split(u)) : u \in ZeroDivUsec}
  ELSE {Millis(Split(d \div cpuSpeed))}

\* usec = diff / cpu_speed; tv_sec/tv_usec split and timeradd with tv_init
\* add up to tv_init + usec.  A division by a cpu_speed of 0.0 gives inf
\* (NaN for 0 / 0.0), whose conversion to unsigned long long is undefined:
\* any value of ZeroDivUsec.
Results(d) ==
  IF cpuSpeed = 0 THEN {Millis(TimerAdd(tvInit, Split(u))) : u \in ZeroDivUsec}
  ELSE {Millis(TimerAdd(tvInit, Split(d \div cpuSpeed)))}

Init ==
  /\ now = 0
  /\ offset = 0
  /\ cpuSpeed = 1
  /\ initialized = FALSE
  /\ tvInit = Split(0)
  /\ pc = [t \in Threads |-> "idle"]
  /\ start = [t \in Threads |-> 0]
  /\ floor = [t \in Threads |-> 0]
  /\ ret = [t \in Threads |-> 0]
  /\ lastRet = 0

Tick ==
  /\ now < MaxTime
  /\ now' = now + 1
  /\ UNCHANGED <<offset, cpuSpeed, initialized, tvInit, pc, start, floor, ret, lastRet>>

\* a call begins and tests `initialized`
Call(t) ==
  /\ pc[t] \in {"idle", "done"}
  /\ pc' = [pc EXCEPT ![t] = IF initialized THEN "read" ELSE "cc"]
  /\ start' = [start EXCEPT ![t] = now]
  /\ floor' = [floor EXCEPT ![t] = lastRet]
  /\ UNCHANGED <<now, offset, cpuSpeed, initialized, tvInit, ret, lastRet>>

\* gettimeofday_cc_init, one store per step
InitOffset(t) ==
  /\ pc[t] = "cc"
  /\ offset' = CC
  /\ pc' = [pc EXCEPT ![t] = "speed"]
  /\ UNCHANGED <<now, cpuSpeed, initialized, tvInit, start, floor, ret, lastRet>>

InitSpeed(t) ==
  /\ pc[t] = "speed"
  /\ cpuSpeed' = GetCpuSpeed(CpuInfo)
  /\ pc' = [pc EXCEPT ![t] = "flag"]
  /\ UNCHANGED <<now, offset, initialized, tvInit, start, floor, ret, lastRet>>

InitFlag(t) ==
  /\ pc[t] = "flag"
  /\ initialized' = TRUE
  /\ pc' = [pc EXCEPT ![t] = "tv"]
  /\ UNCHANGED <<now, offset, cpuSpeed, tvInit, start, floor, ret, lastRet>>

InitTv(t) ==
  /\ pc[t] = "tv"
  /\ tvInit' = Split(WallStart + now)
  /\ pc' = [pc EXCEPT ![t] = "read"]
  /\ UNCHANGED <<now, offset, cpuSpeed, initialized, start, floor, ret, lastRet>>

\* read the counter, compute the result and return it
Read(t) ==
  /\ pc[t] = "read"
  /\ \E r \in Results(Diff(CC, offset)) : ret' = [ret EXCEPT ![t] = r]
  /\ lastRet' = IF ret'[t] > lastRet THEN ret'[t] ELSE lastRet
  /\ pc' = [pc EXCEPT ![t] = "done"]
  /\ UNCHANGED <<now, offset, cpuSpeed, initialized, tvInit, start, floor>>

Next ==
  \/ Tick
  \/ \E t \in Threads :
       Call(t) \/ InitOffset(t) \/ InitSpeed(t) \/ InitFlag(t) \/ InitTv(t) \/ Read(t)

Spec == Init /\ [][Next]_vars

TypeOK ==
  /\ now \in 0 .. MaxTime
  /\ offset \in 0 .. Max2 - 1
  /\ initialized \in BOOLEAN
  /\ pc \in [Threads -> {"idle", "cc", "speed", "flag", "tv", "read", "done"}]
  /\ start \in [Threads -> 0 .. MaxTime]
  /\ tvInit \in [sec : Nat, usec : 0 .. 999999]

\* currentTimeMillis never returns a time earlier than one returned by a
\* call that completed before it began: the lazy initialisation and the wrap-around
\* branch of gettimeofday_cc keep the clock monotonic.
Monotonic ==
  \A t \in Threads : pc[t] = "done" => ret[t] >= floor[t]

\* currentTimeMillis never returns a millisecond before the wall-clock
\* time at which the first call began: no caller sees tv_init before gettimeofday_cc_init
\* has stored it.
NotBeforeStart ==
  \A t \in Threads : pc[t] = "done" => ret[t] >= WallStart \div 1000

\* currentTimeMillis returns the millisecond in which it began, or a later
\* one, to within the one microsecond of a timeval: the offset, the cpu speed and
\* tv_init that gettimeofday_cc_init stores, the wrap branch and the
\* division by cpu_speed together turn counter cycles into elapsed real
\* time.
Accurate ==
  \A t \in Threads : pc[t] = "done" => ret[t] >= (WallStart + start[t] - 1) \div 1000

\* The elapsed cycles the code computes equal the modular difference of
\* the counter readings, also after the counter wraps around.
DiffExact ==
  \A t \in Threads : pc[t] = "read" =>
    Diff(CC, offset) = TrueDiff(CC, offset)

=============================================================================
