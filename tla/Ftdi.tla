------------------------------- MODULE Ftdi --------------------------------
(***************************************************************************)
(* The baud rate request of an FTDI chip (src/serial/ftdi.rs): the chip is *)
(* identified, and the rate becomes a divisor in eighths, packed into the  *)
(* wValue and wIndex of the request.  The bit operations of the code join  *)
(* disjoint fields and are sums here.                                      *)
(***************************************************************************)
EXTENDS Integers

CONSTANTS Versions,  \* bcdDevice, as a hexadecimal number divided by 0x100
          Rates,     \* rates asked for
          Ports      \* interface numbers

VARIABLES chip,  \* FtdiChip, or how opening failed
          port,  \* the interface
          rate,  \* the rate last asked for
          sent   \* the request sent for it: value and index, or refused

vars == <<chip, port, rate, sent>>

Refused == [value |-> -1, index |-> -1]

\* from_bcd_device(); the original SIO is not supported.
FromBcdDevice(v) ==
    CASE v < 2  -> "SIO"
      [] v = 2  -> "Am"
      [] v = 4  -> "Bm"
      [] v = 5  -> "Ft2232C"
      [] v = 6  -> "Ft232R"
      [] v = 16 -> "FtX"
      [] OTHER  -> "HighSpeed"  \* the H series and unknown versions

\* probe(): an AM without a serial number that has a latency timer is a BM.
Probe(v, serial, latency) ==
    IF FromBcdDevice(v) = "Am" /\ ~serial /\ latency THEN "Bm" ELSE FromBcdDevice(v)

IsHighSpeed == chip = "HighSpeed"
Channel == IF chip \in {"Am", "Bm", "Ft232R"} THEN 0 ELSE port + 1
SlowMax == 3000000
MaxBaudRate == IF IsHighSpeed THEN 4 * SlowMax ELSE SlowMax

-----------------------------------------------------------------------------

Absent == -1
MaxWhole == 16383  \* 0x3fff
Frac == 16384      \* 1 << 14
Word == 65536      \* what `as u16` keeps

\* The clocks, in eighths of what they divide into, and where the fast one starts.
SlowClock == 48000000
FastClock == 960000000
FastMin == 1200

\* Mutant: the fraction goes on the wire as it is.
DivFracPlain == <<0, 1, 2, 3, 4, 5, 6, 7>>

\* DIVFRAC: the chip's code of each fraction.
DivFrac == <<0, 3, 2, 4, 1, 5, 6, 7>>

\* The code of each fraction an AM has, of those that are rounded to it too.
AmFrac == <<0, 3, 2, 2, 1, 1, 1, 1>>

\* am_divisor(): fractions of 1/8, 1/4 and 1/2 only, x.875 rounded up.
AmDivisor(baud) ==
    LET d == (SlowClock + baud) \div (2 * baud)
        d3 == IF d % 8 = 7 THEN d + 1 ELSE d
        whole == d3 \div 8
        value == whole + AmFrac[(d3 % 8) + 1] * Frac
    IN  IF whole > MaxWhole THEN Absent ELSE IF value = 1 THEN 0 ELSE value

\* bm_divisor(): divisors 1 and 1.5 have encodings of their own; bit 17 selects
\* the fast clock.
BmDivisor(d3, high) ==
    LET whole == d3 \div 8
        d == whole + DivFrac[(d3 % 8) + 1] * Frac
    IN  IF whole > MaxWhole THEN Absent
        ELSE (IF d = 1 THEN 0 ELSE IF d = 1 + Frac THEN 1 ELSE d) + (IF high THEN 131072 ELSE 0)

\* baud_request()
BaudRequest(baud) ==
    LET divisor == IF chip = "Am" THEN AmDivisor(baud)
                   ELSE IF IsHighSpeed /\ baud >= FastMin
                        THEN BmDivisor((FastClock + 5 * baud) \div (10 * baud), TRUE)
                        ELSE BmDivisor((SlowClock + baud) \div (2 * baud), FALSE)
        high == divisor \div Word
    IN  IF baud = 0 \/ baud > MaxBaudRate THEN Refused
        ELSE IF divisor = Absent THEN Refused
        ELSE [value |-> divisor % Word, index |-> IF Channel # 0 THEN high * 256 + Channel ELSE high]

-----------------------------------------------------------------------------

Init ==
    /\ chip = "closed" /\ port \in Ports /\ rate = 0 /\ sent = Refused

OpenFtdi(v, serial, latency) ==
    /\ chip = "closed" /\ chip' = Probe(v, serial, latency)
    /\ UNCHANGED <<port, rate, sent>>

SetBaudRate(baud) ==
    /\ chip \notin {"closed", "SIO"}
    /\ rate' = baud /\ sent' = BaudRequest(baud)
    /\ UNCHANGED <<chip, port>>

Next ==
    \/ \E v \in Versions, serial \in BOOLEAN, latency \in BOOLEAN : OpenFtdi(v, serial, latency)
    \/ \E baud \in Rates : SetBaudRate(baud)

Spec == Init /\ [][Next]_vars

-----------------------------------------------------------------------------
(* The chip's side: what it makes of a request *)

\* Eighths of each fraction code.
Eighths == <<0, 4, 2, 1, 3, 5, 6, 7>>

HighBits == IF Channel # 0 THEN sent.index \div 256 ELSE sent.index
Code == sent.value \div Frac + 4 * (HighBits % 2)
Divisor ==
    CASE sent.value = 0 /\ Code = 0 -> 8
      [] sent.value = 1 /\ Code = 0 -> 12
      [] OTHER                      -> 8 * (sent.value % Frac) + Eighths[Code + 1]

\* The fast clock: bit 17 of the divisor.
Fast == HighBits >= 2
Within(x, y, d) == x - y <= d /\ y - x <= d

\* A rate whose divisor is more than MaxWhole and 7/8.
TooLow(baud) == SlowClock \div (2 * baud) >= 8 * (MaxWhole + 1) - 1

\* The rate the chip derives from the request is the nearest it has: within half
\* an eighth of the divisor asked for (on an AM, which lacks most fractions,
\* within two eighths and a half), from the clock the request selects, on the
\* port it names.  A rate is refused only if the chip has no such divisor.
RateIsNearest ==
    /\ sent # Refused =>
         /\ Channel # 0 => sent.index % 256 = Channel
         /\ IF Fast THEN IsHighSpeed /\ Within(10 * Divisor * rate, FastClock, 5 * rate)
            ELSE Within(2 * Divisor * rate, SlowClock, (IF chip = "Am" THEN 5 ELSE 1) * rate)
    /\ sent = Refused /\ rate # 0 => rate > MaxBaudRate \/ TooLow(rate)
=============================================================================
