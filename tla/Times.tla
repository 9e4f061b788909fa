------------------------------- MODULE Times -------------------------------
(***************************************************************************)
(* Time spans and expiration times (src/src/ccevents-timevals.c and        *)
(* src/src/ccevents-timeouts.c).                                           *)
(*                                                                         *)
(* A timeval is a record [sec, usec], a timeout a record [sec, ms, us];    *)
(* all fields are C longs.  The constant K stands for 1000, so that a      *)
(* second has K * K microseconds.  A function that can raise an exception  *)
(* returns an outcome: the condition raised, or NoError and a value.       *)
(*                                                                         *)
(* The program of the module computes one value with the functions and may *)
(* ask at any moment how it compares and whether it has expired.           *)
(***************************************************************************)
EXTENDS Integers

CONSTANTS LONG_MAX,
          K          \* the radix of milliseconds and microseconds

\* The microseconds of two normalised times are added as longs.
ASSUME TimesAssumption ==
  /\ K \in Nat /\ K > 1
  /\ LONG_MAX \in Nat /\ LONG_MAX >= 2 * K * K

LONG_MIN == -LONG_MAX - 1
Longs == LONG_MIN..LONG_MAX
Second == K * K \* in microseconds

Timevals == [sec : 0..LONG_MAX, usec : 0..(Second - 1)]
Timeouts == [sec : 0..LONG_MAX, ms : 0..(K - 1), us : 0..(K - 1)]

TIMEVAL_NEVER == [sec |-> LONG_MAX, usec |-> LONG_MAX]

IsTimeout(t) == "ms" \in DOMAIN t

None == [none |-> TRUE]

VARIABLES held,   \* the value the program computes, or None
          raised, \* the condition the last function raised, or NoError
          \* What was asked for; not part of the code.
          due,     \* the exact result, in microseconds
          forever, \* the program named an infinite time
          limit    \* the request reached the limits of the representation

history == <<due, forever, limit>>
vars == <<held, raised, history>>

Micros(t) ==
  IF IsTimeout(t) THEN t.sec * Second + t.ms * K + t.us
                  ELSE t.sec * Second + t.usec

(***************************************************************************)
(* Arithmetic of C longs: sums wrap around, division truncates.            *)
(***************************************************************************)

Long(n) == LONG_MIN + ((n - LONG_MIN) % (2 * (LONG_MAX + 1)))

Quot(n, unit) == IF n < 0 THEN -((-n) \div unit) ELSE n \div unit
Rem(n, unit) == n - unit * Quot(n, unit)

NoError == "no error"
Return(t) == [raised |-> NoError, held |-> t]
Raise(condition) == [raised |-> condition, held |-> None]

(***************************************************************************)
(* A count of little units is distributed on a count of big ones; one big  *)
(* unit is "unit" little ones.                                             *)
(***************************************************************************)

\* Fault: the negative remainder is moved up, but nothing is taken for it.
Fault_borrow_too_little(p, unit) ==
  IF p.little >= 0 THEN p
  ELSE [big    |-> Long(p.big + Quot(p.little, unit)),
        little |-> Rem(p.little, unit) + unit]

borrow(p, unit) ==
  IF p.little >= 0 THEN p
  ELSE [big    |-> Long(p.big + Quot(p.little, unit) - 1),
        little |-> Rem(p.little, unit) + unit]

\* Fault: the greatest count is taken for a number of units like the others.
Fault_fits_maximum(p, unit) == LONG_MAX - p.big >= Quot(p.little, unit)

fits(p, unit) == LONG_MAX - p.big > Quot(p.little, unit)

\* Fault: "little" may be equal to "unit".
Fault_carry_above(p, unit) ==
  IF p.little <= unit THEN p
  ELSE [big    |-> Long(p.big + Quot(p.little, unit)),
        little |-> Rem(p.little, unit)]

carry(p, unit) ==
  IF p.little < unit THEN p
  ELSE [big    |-> Long(p.big + Quot(p.little, unit)),
        little |-> Rem(p.little, unit)]

\* Fault: a big count of zero is refused, too.
Fault_distribute_refuses_zero(big, little, unit) ==
  LET p == borrow([big |-> big, little |-> little], unit)
  IN  [pair  |-> carry(p, unit),
       error |-> CASE little < 0 /\ p.big <= 0 -> "negative"
                   [] p.little >= unit /\ ~fits(p, unit) -> "too big"
                   [] OTHER -> NoError]

distribute(big, little, unit) ==
  LET p == borrow([big |-> big, little |-> little], unit)
  IN  [pair  |-> carry(p, unit),
       error |-> CASE little < 0 /\ p.big < 0 -> "negative"
                   [] p.little >= unit /\ ~fits(p, unit) -> "too big"
                   [] OTHER -> NoError]

(***************************************************************************)
(* Timevals.                                                               *)
(***************************************************************************)

normalise(T) ==
  LET d == distribute(T.sec, T.usec, Second)
  IN  IF T.sec < 0 THEN Raise("timeval_invalid")
      ELSE IF d.error # NoError THEN Raise("timeval_overflow")
      ELSE Return([sec |-> d.pair.big, usec |-> d.pair.little])

timeval_init(seconds, microseconds) ==
  normalise([sec |-> seconds, usec |-> microseconds])

\* The assertions that both operands are normalised are preconditions.
timeval_add(A, B) ==
  LET usec == Long(A.usec + B.usec)
      p == [big |-> Long(A.sec + B.sec), little |-> Rem(usec, Second)]
      secs == Quot(usec, Second)
  IN  IF LONG_MAX - A.sec > B.sec /\ LONG_MAX - p.big > secs
        THEN Return([sec |-> Long(p.big + secs), usec |-> p.little])
        ELSE Raise("timeval_overflow")

timeval_sub(A, B) == timeval_init(Long(A.sec - B.sec), Long(A.usec - B.usec))

Sign(n) == CASE n < 0 -> -1 [] n = 0 -> 0 [] n > 0 -> 1

\* Fault: seconds are not compared first.
Fault_compare_usec_first(A, B) ==
  IF A.usec # B.usec THEN Sign(A.usec - B.usec) ELSE Sign(A.sec - B.sec)

timeval_compare(A, B) ==
  IF A.sec # B.sec THEN Sign(A.sec - B.sec) ELSE Sign(A.usec - B.usec)

is_infinite(t) == t.sec = LONG_MAX

\* Fault: microseconds are compared in later seconds, too.
Fault_is_expired_any_second(e, now) ==
  ~is_infinite(e) /\ ~(now.sec < e.sec \/ now.usec <= e.usec)

is_expired_timeout(e, now) ==
  /\ ~is_infinite(e)
  /\ ~(now.sec < e.sec \/ (now.sec = e.sec /\ now.usec <= e.usec))

(***************************************************************************)
(* Timeouts.                                                               *)
(***************************************************************************)

condition(error) ==
  IF error = "negative" THEN "timeval_overflow" ELSE "timeout_overflow"

\* The function without a count of huge units, and with one: a negative count
\* of bigs is distributed on the huges before the littles are carried.
normalise_little_into_big(big, little) == distribute(big, little, K)

normalise_through_huge(huge, big, little) ==
  LET p == borrow([big |-> big, little |-> little], K)
      h == IF p.big < 0
             THEN normalise_little_into_big(huge, p.big)
             ELSE [pair |-> [big |-> huge, little |-> p.big], error |-> NoError]
      d == normalise_little_into_big(h.pair.little, p.little)
  IN  [huge |-> h.pair.big, pair |-> d.pair,
       error |-> IF h.error # NoError THEN h.error ELSE d.error]

timeout_init(seconds, milliseconds, microseconds) ==
  LET pre  == normalise_little_into_big(seconds, milliseconds)
      mid  == normalise_through_huge(pre.pair.big, pre.pair.little, microseconds)
      post == normalise_little_into_big(mid.huge, mid.pair.big)
      error == IF pre.error # NoError THEN pre.error
               ELSE IF mid.error # NoError THEN mid.error ELSE post.error
  IN  IF seconds < 0 THEN Raise("timeout_invalid")
      ELSE IF error # NoError THEN Raise(condition(error))
      ELSE Return([sec |-> post.pair.big, ms |-> post.pair.little,
                   us |-> mid.pair.little])

timeout_compare(A, B) ==
  CASE A.sec # B.sec -> Sign(A.sec - B.sec)
    [] A.sec = B.sec /\ A.ms # B.ms -> Sign(A.ms - B.ms)
    [] OTHER -> Sign(A.us - B.us)

\* gettimeofday returns "now".
timeout_start(to, now) ==
  IF is_infinite(to)
    THEN Return([sec |-> LONG_MAX, usec |-> 0])
    ELSE timeval_add(now, [sec |-> to.sec, usec |-> Long(K * to.ms + to.us)])

(***************************************************************************)
(* The program.                                                            *)
(***************************************************************************)

Init ==
  /\ held = None /\ raised = NoError
  /\ due = 0 /\ forever = FALSE /\ limit = FALSE

\* The value asked for is not representable, or it is so small and a negative
\* count of little units makes it so, that borrowing goes below zero.
AtLimit(micros, little, small) ==
  \/ micros < 0 \/ micros >= LONG_MAX * Second
  \/ little < 0 /\ micros <= small

Becomes(outcome, micros, infinite, atLimit) ==
  /\ held' = outcome.held /\ raised' = outcome.raised
  /\ due' = micros /\ forever' = infinite /\ limit' = atLimit

Fresh == held = None /\ raised = NoError
HoldsTimeval == held \in Timevals
HoldsTimeout == held \in Timeouts

make_timeval(s, u) ==
  /\ Fresh
  /\ LET micros == s * Second + u
     IN  Becomes(timeval_init(s, u), micros, s = LONG_MAX,
                 s < 0 \/ AtLimit(micros, u, 0))

make_never ==
  /\ Fresh
  /\ Becomes(Return(TIMEVAL_NEVER), Micros(TIMEVAL_NEVER), TRUE, TRUE)

make_timeout(s, m, u) ==
  /\ Fresh
  /\ LET upper == s * Second + m * K
     IN  Becomes(timeout_init(s, m, u), upper + u, s = LONG_MAX,
                 s < 0 \/ AtLimit(upper, m, 0) \/ AtLimit(upper + u, u, K))

add(B) ==
  /\ HoldsTimeval
  /\ Becomes(timeval_add(held, B), due + Micros(B), forever \/ is_infinite(B),
             AtLimit(due + Micros(B), 0, 0))

sub(B) ==
  /\ HoldsTimeval
  /\ Becomes(timeval_sub(held, B), due - Micros(B), forever,
             AtLimit(due - Micros(B), 0, 0))

start(now) ==
  /\ HoldsTimeout
  /\ LET micros == IF is_infinite(held) THEN LONG_MAX * Second
                                        ELSE Micros(now) + due
     IN  Becomes(timeout_start(held, now), micros, forever, AtLimit(micros, 0, 0))

\* The program handles the exception, or drops the value, and begins again.
begin_again ==
  /\ ~Fresh
  /\ Becomes(Return(None), 0, FALSE, FALSE)

Next ==
  \/ \E s, u \in Longs : make_timeval(s, u)
  \/ \E s, m, u \in Longs : make_timeout(s, m, u)
  \/ \E T \in Timevals : add(T) \/ sub(T) \/ start(T)
  \/ make_never
  \/ begin_again

Spec == Init /\ [][Next]_vars

(***************************************************************************)
(* Properties.                                                             *)
(***************************************************************************)

Conditions ==
  {"timeval_invalid", "timeval_overflow", "timeout_invalid", "timeout_overflow"}

\* Every value the functions return is normalised, although sums of longs could
\* wrap around; only the constant CCEVENTS_TIMEVAL_NEVER is not.
TypeOK ==
  /\ held \in Timevals \cup Timeouts \cup {TIMEVAL_NEVER, None}
  /\ raised \in Conditions \cup {NoError}
  /\ due \in Int /\ forever \in BOOLEAN /\ limit \in BOOLEAN

\* After any number of operations the program holds the exact result of what it
\* asked for: no borrow, carry or redistribution drops or invents microseconds
\* (ccevents-timevals.c:72-103 and 132-151, ccevents-timeouts.c:83-123).
HeldIsExact == held # None => Micros(held) = due

\* No sum of finite times becomes the infinite time, LONG_MAX seconds: a timeout
\* that should expire always does (the strict comparisons at
\* ccevents-timevals.c:97, 132 and 145 and ccevents-timeouts.c:114).
InfiniteOnDemand ==
  held # None /\ is_infinite(held) => forever

\* The functions raise only at the limits of the representation: for a result
\* that is negative or has LONG_MAX seconds, and for a timeout whose seconds and
\* milliseconds alone are so.  Beyond need, they raise for a timeval of zero, or a
\* timeout of at most a millisecond, that is reached by borrowing (see
\* RaisesOnlyIfUnfit).
RaisesOnlyAtLimit == raised # NoError => limit

\* The comparisons order times by their length (ccevents-timevals.c:178-194,
\* ccevents-timeouts.c:168-192), the never-expiring one included.
CompareIsOrder ==
  /\ HoldsTimeout =>
       \A B \in Timeouts : timeout_compare(held, B) = Sign(due - Micros(B))
  /\ HoldsTimeval \/ held = TIMEVAL_NEVER =>
       \A B \in Timevals : timeval_compare(held, B) = Sign(due - Micros(B))

\* Whatever the clock says: an expiration time that was computed has expired
\* after it was due, never at that instant or before, and an infinite one never
\* (ccevents-timevals.c:196-213).
ExpiresWhenDue ==
  HoldsTimeval \/ held = TIMEVAL_NEVER =>
    \A now \in Timevals :
      is_expired_timeout(held, now) <=> Micros(now) > due /\ due < LONG_MAX * Second

\* What the comment at ccevents-timeouts.c:129-131 promises: an overflow is raised
\* only if the values asked for do not fit the representation.
RaisesOnlyIfUnfit ==
  raised \in {"timeval_overflow", "timeout_overflow"} =>
    due \notin 0..(LONG_MAX * Second - 1)
=============================================================================
