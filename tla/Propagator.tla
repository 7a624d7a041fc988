------------------------------ MODULE Propagator ------------------------------
(***************************************************************************)
(* The Cloud Trace propagators (propagator/propagator.go).                 *)
(*                                                                         *)
(* A span context is [trace, span, flags].  A header is [trace, span,      *)
(* digits, flag]: the number of digits the span is printed with, and the   *)
(* digits of o= as a sequence, empty if it is left out; NoHeader is none,  *)
(* and Invalid the empty context.  A header has up to maxDigits digits for *)
(* a span, and a span is below limit: in the code 20 and 2^64.             *)
(***************************************************************************)
EXTENDS Integers, Sequences

NoHeader == [trace |-> 0, span |-> 0, digits |-> 0, flag |-> <<>>]
Invalid == [trace |-> 0, span |-> 0, flags |-> 0]

(* %d prints the digits of n that are left by divisions by 10, last first. *)
Quotients(n) ==
    LET quotient[d \in 0..(n + 1)] == IF d = 0 THEN n ELSE quotient[d - 1] \div 10
    IN  quotient
Width(n) ==
    CHOOSE d \in 1..(n + 1) : Quotients(n)[d] = 0 /\ (d = 1 \/ Quotients(n)[d - 1] > 0)
DigitsOf(n) == [k \in 1..Width(n) |-> Quotients(n)[Width(n) - k] % 10]

(* Inject prints the flags in hexadecimal, and reads them as a decimal     *)
(* number: with a digit above 9 there is no header.                        *)
FlagDigits(flags) == <<flags \div 16, flags % 16>>
Printable(flags) == FlagDigits(flags)[1] < 10 /\ FlagDigits(flags)[2] < 10
FlagNumber(flags) == 10 * FlagDigits(flags)[1] + FlagDigits(flags)[2]
Inject(sc) ==
    IF Printable(sc.flags)
    THEN [trace |-> sc.trace, span |-> sc.span, digits |-> Len(DigitsOf(sc.span)),
          flag |-> DigitsOf(FlagNumber(sc.flags))]
    ELSE NoHeader

(* The regular expression takes one digit of flags, and up to twenty of a  *)
(* span; only a single 0 is taken for no span, and too large a number is   *)
(* not parsed.                                                             *)
Matches(h, maxDigits) == h.digits \in 1..maxDigits /\ Len(h.flag) <= 1
NonRecording(h) == h.trace = 0 \/ (h.span = 0 /\ h.digits = 1)
SampledFlag_OnlySet(h) == IF h.flag = <<1>> \/ h.flag = <<>> THEN 1 ELSE 0
SampledFlag(h) == IF h.flag = <<0>> \/ h.flag = <<>> THEN 0 ELSE 1
spanContextFromXCTCHeader(h, maxDigits, limit) ==
    IF Matches(h, maxDigits) /\ ~NonRecording(h) /\ h.span < limit
    THEN [trace |-> h.trace, span |-> h.span, flags |-> SampledFlag(h)]
    ELSE Invalid

(* The context is left as it was when there is no header, or a bad one.    *)
Extract(ctx, h, maxDigits, limit) ==
    IF h = NoHeader THEN ctx
    ELSE IF spanContextFromXCTCHeader(h, maxDigits, limit) = Invalid THEN ctx
    ELSE spanContextFromXCTCHeader(h, maxDigits, limit)
-----------------------------------------------------------------------------
(* A span context that is injected by one process and extracted by another *)
(* has the same trace and span, a sampled one is sampled or does not       *)
(* arrive, and the flags 00 and 01 arrive as they are.                     *)
ContextSurvives(sc, ctx, maxDigits, limit) ==
    LET there == Extract(ctx, Inject(sc), maxDigits, limit)
        Valid == sc.trace # 0 /\ sc.span # 0
    IN  /\ there # ctx => /\ there.trace = sc.trace /\ there.span = sc.span
                          /\ sc.flags % 2 = 1 => there.flags = 1
        /\ Valid /\ sc.flags \in {0, 1} => there = sc

(* What is extracted from any header is injected as the same header, but   *)
(* for zeros in front and a flag that is left out or above 1; a header is  *)
(* sampled only if it says so.                                             *)
HeaderSurvives(h, ctx, maxDigits, limit) ==
    LET sc == Extract(ctx, h, maxDigits, limit) IN
    sc # ctx =>
        /\ Inject(sc) # NoHeader
        /\ Inject(sc).trace = h.trace /\ Inject(sc).span = h.span
        /\ Len(h.flag) <= 1
        /\ sc.flags = 1 <=> h.flag # <<>> /\ h.flag # <<0>>
        /\ sc.span # 0 => Extract(ctx, Inject(sc), maxDigits, limit) = sc
=============================================================================
