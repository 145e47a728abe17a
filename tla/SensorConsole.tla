--------------------------- MODULE SensorConsole ---------------------------
(***************************************************************************)
(* src/0612/rpi4.c: on a key it has a sensor take one sample, waits for    *)
(* it, reads the registers byte by byte and computes what it prints.  The  *)
(* results of the transfers on the I2C bus are not tested.  The sensors    *)
(* (LPS25H on p, HTS221 on t) are modelled from how the code uses them.    *)
(***************************************************************************)
EXTENDS Integers, Sequences

CONSTANTS
  Samples,     \* what is measured: [temp, press, humid], the last of which the
               \* LPS25H does not have, and press not the HTS221
  Chips        \* calibrations an HTS221 may have

\* the values of an unsigned register below n, and of a signed one of 16 bits
Under(n) == {v \in Nat : v < n}
Int16    == {v \in Int : -32768 <= v /\ v < 32768}

ASSUME SampleAssumption ==
  /\ \A s \in Samples : {s.temp, s.humid} \subseteq Int16 /\ s.press \in Under(16777216)
  /\ \A k \in Chips : /\ {k.t0, k.t1} \subseteq Under(1024) /\ {k.h0, k.h1} \subseteq Under(256)
                      /\ {k.t0out, k.t1out, k.h0out, k.h1out} \subseteq Int16

VARIABLES
  console,     \* where main() is
  key,         \* the key it works on: the sensor it talks to
  power,       \* power[d]: bit PD of CTRL_REG1 of sensor d
  oneshot,     \* oneshot[d]: CTRL_REG2 of sensor d, 1 while it measures
  sample,      \* sample[d]: what is in its output registers
  chip,        \* the calibration of the HTS221
  bytes,       \* what has been read for this key, in the order of the reads
  fresh,       \* the sensor has finished a sample for this key
  busfault     \* a transfer has failed for this key

sensorvars == <<console, key, power, oneshot, sample, chip, bytes, fresh, busfault>>

Sensor == {"p", "t"}

ConsoleInit ==
  /\ console = "key" /\ key = "p" /\ power = [d \in Sensor |-> 0] /\ oneshot = [d \in Sensor |-> 0]
  /\ sample \in [Sensor -> Samples] /\ chip \in Chips
  /\ bytes = <<>> /\ fresh = FALSE /\ busfault = FALSE

ConsoleTypeOK ==
  /\ console \in {"key", "off", "on", "start", "wait", "read", "show", "over"}
  /\ key \in Sensor
  /\ power \in [Sensor -> {0, 1}] /\ oneshot \in [Sensor -> {0, 1}]
  /\ sample \in [Sensor -> Samples] /\ chip \in Chips
  /\ bytes \in Seq(Under(256)) /\ fresh \in BOOLEAN /\ busfault \in BOOLEAN

ConsoleAt(from, to) == console = from /\ console' = to

-----------------------------------------------------------------------------
(* The registers.                                                          *)

Lo(v)    == v % 256
Hi(v)    == (v \div 256) % 256
Upper(v) == ((v \div 256) \div 256) % 256

\* what the code reads, in its order: 186-192 and 215-233, 262-270
Registers(d) ==
  LET s == sample[d] k == chip
  IN  IF d = "p"
        THEN <<Lo(s.temp), Hi(s.temp), Lo(s.press), Hi(s.press), Upper(s.press)>>
        ELSE <<Lo(k.t0out), Hi(k.t0out), Lo(k.t1out), Hi(k.t1out),
               Lo(k.t0), Lo(k.t1), Hi(k.t0) + 4 * Hi(k.t1),
               Lo(k.h0out), Hi(k.h0out), Lo(k.h1out), Hi(k.h1out), k.h0, k.h1,
               Lo(s.temp), Hi(s.temp), Lo(s.humid), Hi(s.humid)>>

\* (mutant: the bytes are taken as unsigned)
Unsigned(h, l) == h * 256 + l
\* h << 8 | l in a short
Short(h, l) == LET u == h * 256 + l IN IF u >= 32768 THEN u - 65536 ELSE u

\* y = m * x + c through (x0, y0) and (x1, y1), as a numerator over x1 - x0; when
\* that is 0 the code divides by it, in doubles
OnLine(x, x0, y0, x1, y1) == (y1 - y0) * x + (y1 * (x1 - x0) - (y1 - y0) * x1)

\* getPressure(): the raw temperature and pressure, of which it prints 42.5 +
\* temp / 480 and press / 4096; getTemperature(): eighths of a degree and halves of
\* a percent, each times x1 - x0
Reading(d, b) ==
  IF d = "p"
    THEN [temp |-> Short(b[2], b[1]), press |-> b[5] * 65536 + b[4] * 256 + b[3]]
    ELSE [temp  |-> OnLine(Short(b[15], b[14]), Short(b[2], b[1]), (b[7] % 4) * 256 + b[5],
                           Short(b[4], b[3]), ((b[7] % 16) \div 4) * 256 + b[6]),
          humid |-> OnLine(Short(b[17], b[16]), Short(b[9], b[8]), b[12], Short(b[11], b[10]), b[13])]

-----------------------------------------------------------------------------
(* main()                                                                  *)

\* kbhit() reads a key without waiting and puts it back; other keys are ignored
PressKey(d) ==
  /\ ConsoleAt("key", "off") /\ key' = d
  /\ UNCHANGED <<power, oneshot, sample, chip, bytes, fresh, busfault>>

\* bound: one transfer fails for a key
BusFails == ~busfault /\ busfault' = TRUE
\* wiringPiI2CWriteReg8() may fail, and then nothing is written
WriteReg(reg, v) ==
  \/ reg' = [reg EXCEPT ![key] = v] /\ UNCHANGED busfault
  \/ BusFails /\ UNCHANGED reg
PowerOff ==
  /\ ConsoleAt("off", "on") /\ WriteReg(power, 0)
  /\ UNCHANGED <<key, oneshot, sample, chip, bytes, fresh>>
PowerOn ==
  /\ ConsoleAt("on", "start") /\ WriteReg(power, 1)
  /\ UNCHANGED <<key, oneshot, sample, chip, bytes, fresh>>
StartSample ==
  /\ ConsoleAt("start", "wait") /\ WriteReg(oneshot, 1)
  /\ UNCHANGED <<key, power, sample, chip, bytes, fresh>>

\* (mutant: the end of the measurement is not waited for)
NoWait      == TRUE
\* the loop ends when CTRL_REG2 reads 0; a failed read gives -1 and is tried again
SampleReady == oneshot[key] = 0
WaitSample ==
  /\ ConsoleAt("wait", "read") /\ SampleReady
  /\ UNCHANGED <<key, power, oneshot, sample, chip, bytes, fresh, busfault>>

\* one byte; a failed read gives -1, in an unsigned char 255
ReadReg ==
  /\ console = "read" /\ Len(bytes) < Len(Registers(key))
  /\ \/ bytes' = Append(bytes, Registers(key)[Len(bytes) + 1]) /\ UNCHANGED busfault
     \/ BusFails /\ bytes' = Append(bytes, 255)
  /\ UNCHANGED <<console, key, power, oneshot, sample, chip, fresh>>
Compute ==
  /\ ConsoleAt("read", "show") /\ Len(bytes) = Len(Registers(key))
  /\ UNCHANGED <<key, power, oneshot, sample, chip, bytes, fresh, busfault>>

\* printf() and the next pass
ShowReading ==
  /\ ConsoleAt("show", "key")
  /\ bytes' = <<>> /\ fresh' = FALSE /\ busfault' = FALSE
  /\ UNCHANGED <<key, power, oneshot, sample, chip>>

\* q: both sensors are switched off, or one is not
PressQuit ==
  /\ ConsoleAt("key", "over")
  /\ power' \in {[power EXCEPT !["p"] = x, !["t"] = y] : x \in {0, power["p"]}, y \in {0, power["t"]}}
  /\ UNCHANGED <<key, oneshot, sample, chip, bytes, fresh, busfault>>

-----------------------------------------------------------------------------
(* A sensor that is on takes the sample it has been told to take.          *)
TakeSample(d) ==
  /\ power[d] = 1 /\ oneshot[d] = 1
  /\ oneshot' = [oneshot EXCEPT ![d] = 0]
  /\ \E s \in Samples : sample' = [sample EXCEPT ![d] = s]
  /\ fresh' = (fresh \/ d = key)
  /\ UNCHANGED <<console, key, power, chip, bytes, busfault>>

MeasureStep == PowerOff \/ PowerOn \/ StartSample \/ WaitSample \/ ReadReg \/ Compute \/ ShowReading

ConsoleNext ==
  \/ \E d \in Sensor : PressKey(d) \/ TakeSample(d)
  \/ MeasureStep \/ PressQuit

ConsoleFairness ==
  /\ WF_sensorvars(MeasureStep)
  /\ \A d \in Sensor : WF_sensorvars(TakeSample(d))

ConsoleSpec == ConsoleInit /\ [][ConsoleNext]_sensorvars /\ ConsoleFairness

-----------------------------------------------------------------------------
(* What must hold.                                                         *)

\* What is printed is one sample, taken after the key was pressed, with its sign
\* (195, 266, 273), all 24 bits of the pressure (196) and, for the HTS221, on the
\* line through the chip's two calibration points (256-279): all its bytes are of
\* that sample although they are read one by one, unless a transfer has failed
\* (182-192), which the program does not notice.
ReadingIsSample ==
  console = "show" /\ ~busfault =>
    LET s == sample[key]
        r == Reading(key, bytes)
    IN  /\ fresh
        /\ IF key = "p" THEN r = [temp |-> s.temp, press |-> s.press]
           ELSE /\ r.temp  = chip.t0 * (chip.t1out - s.temp) + chip.t1 * (s.temp - chip.t0out)
                /\ r.humid = chip.h0 * (chip.h1out - s.humid) + chip.h1 * (s.humid - chip.h0out)

\* A key that starts a measurement leads to what it prints (180-183), unless a
\* transfer fails before: a sensor that was not switched on never finishes.
KeyWaits    == console = "off"
KeyServed   == console = "show" \/ busfault
KeyAnswered == KeyWaits ~> KeyServed
=============================================================================
