----------------------------- MODULE Attributes -----------------------------
(***************************************************************************)
(* What the readers and writers of lib/fs.cpp make of the device number    *)
(* and the times of a file: version 1 keeps them in one extended attribute,*)
(* in the units of Linux, version 2 in another one and in the times that   *)
(* NTFS has anyway.  One time stands for the three of a file.  The numbers *)
(* are unsigned with 32 or 64 bits but for the times of NTFS, which are    *)
(* signed.                                                                 *)
(***************************************************************************)
EXTENDS Integers, TLAPS

W32 == 4294967296
W64 == 18446744073709551616
Second == 10000000                  \* in the units of NTFS
Epoch == 116444736000000000         \* 1970 in the time of NTFS

UInt32 == {x \in Nat : x < W32}
UInt64 == {x \in Nat : x < W64}
Int64 == {x \in Int : -(W64 \div 2) <= x /\ x < W64 \div 2}

(* Conversions between the types, and the division of C++, which cuts towards zero. *)
Unsigned32(x) == x % W32
Unsigned64(x) == x % W64
Signed64(x) == IF x % W64 < W64 \div 2 THEN x % W64 ELSE (x % W64) - W64
Quotient(a, b) == IF a >= 0 THEN a \div b ELSE -((-a) \div b)
Remainder(a, b) == IF a >= 0 THEN a % b ELSE -((-a) % b)

-----------------------------------------------------------------------------
(* time_u2f and time_f2u, and the packing of device numbers.               *)

FileTime(time) == Signed64(Unsigned64(time.sec * Second) + (time.nsec \div 100) + Epoch)
UnixTime(ticks) == [sec  |-> Unsigned64(Quotient(ticks - Epoch, Second)),
                    nsec |-> Unsigned32(Remainder(ticks - Epoch, Second) * 100)]

PackV1(major, minor) == Unsigned32(major * 1048576) + (minor % 1048576)
MajorV1(rdev) == rdev \div 1048576
MinorV1(rdev) == rdev % 1048576

PackV2(major, minor) == (minor * W32) + major
MajorV2(dev) == dev % W32
MinorV2(dev) == dev \div W32

(* read_attr and write_attr of both versions, on what lies on the disk.  Version 2
   has a device number for devices only; for other files read_attr leaves the two
   members as they came from "new", so "junk" is any pair of numbers. *)
ReadV1(file) == [device |-> file.device, time |-> file.time,
                 major |-> MajorV1(file.rdev), minor |-> MinorV1(file.rdev)]
WriteV1(attr) == [device |-> attr.device, time |-> attr.time, rdev |-> PackV1(attr.major, attr.minor)]

ReadV2(file, junk) == [device |-> file.device, time |-> UnixTime(file.ticks),
                       major |-> IF file.device THEN MajorV2(file.dev) ELSE junk.major,
                       minor |-> IF file.device THEN MinorV2(file.dev) ELSE junk.minor]
WriteV2(attr) == [device |-> attr.device, ticks |-> FileTime(attr.time),
                  dev |-> IF attr.device THEN PackV2(attr.major, attr.minor) ELSE 0]

Times == [sec : UInt64, nsec : UInt32]
FilesV1 == [device : BOOLEAN, time : Times, rdev : UInt32]
FilesV2 == [device : BOOLEAN, ticks : Int64, dev : UInt64]
Junk == [major : UInt32, minor : UInt32]

-----------------------------------------------------------------------------
(* Device numbers *)

\* A version 1 device number survives the way through file_attr.
LEMMA RdevReturns == ASSUME NEW rdev \in UInt32 PROVE PackV1(MajorV1(rdev), MinorV1(rdev)) = rdev
BY SMT DEF UInt32, W32, PackV1, MajorV1, MinorV1, Unsigned32

\* The parts of a version 1 device number are numbers of 32 bits.
LEMMA RdevParts == ASSUME NEW rdev \in UInt32 PROVE MajorV1(rdev) \in UInt32 /\ MinorV1(rdev) \in UInt32
BY SMT DEF UInt32, W32, MajorV1, MinorV1

\* Version 2 keeps any two numbers of 32 bits apart.
LEMMA DevReturns ==
  ASSUME NEW major \in UInt32, NEW minor \in UInt32
  PROVE
     MajorV2(PackV2(major, minor)) = major /\ MinorV2(PackV2(major, minor)) = minor
BY SMT DEF UInt32, W32, PackV2, MajorV2, MinorV2

\* A version 2 device number survives the way through file_attr, in parts of 32 bits.
LEMMA DevParts ==
  ASSUME NEW dev \in UInt64
  PROVE
     /\ MajorV2(dev) \in UInt32 /\ MinorV2(dev) \in UInt32
     /\ PackV2(MajorV2(dev), MinorV2(dev)) = dev
BY SMT DEF UInt32, UInt64, W32, W64, PackV2, MajorV2, MinorV2

-----------------------------------------------------------------------------
(* Times *)

\* The numbers of seconds since 1970 that the time of NTFS can hold.
LastSecond == 910692730084

\* What a conversion to 64 bits signed makes of numbers that fit, and of those that
\* a product without sign has carried over.
LEMMA SignedFits ==
  ASSUME NEW z \in Int, -(W64 \div 2) <= z, z < W64 \div 2
  PROVE  Signed64(z) = z /\ \A k \in Int : Signed64(z + k * W64) = z
BY SMT DEF Signed64, W64, W32

\* A time since 1970 is the number of its ticks, the rest of a tick is lost.
LEMMA TicksSince1970 ==
  ASSUME NEW time \in Times, time.sec <= LastSecond, time.nsec < 1000000000
  PROVE  FileTime(time) = (time.sec * Second) + (time.nsec \div 100) + Epoch
BY SMT DEF Times, UInt32, UInt64, FileTime, Signed64, Unsigned64, W64, W32, Second, Epoch, LastSecond

\* The ticks of a time taken apart again.
LEMMA Apart ==
  ASSUME NEW sec \in Nat, NEW nsec \in Nat, nsec < 1000000000
  PROVE  LET t == (sec * Second) + (nsec \div 100)
         IN  t \div Second = sec /\ (t % Second) * 100 = nsec - (nsec % 100)
BY SMT DEF Second

\* The way there and back for a time of Linux.
LEMMA TimeReturns ==
  ASSUME NEW time \in Times, time.sec <= LastSecond, time.nsec < 1000000000
  PROVE  UnixTime(FileTime(time)) = [time EXCEPT !.nsec = @ - (@ % 100)]
<1> DEFINE t == (time.sec * Second) + (time.nsec \div 100)
<1>1. FileTime(time) - Epoch = t /\ t \in Nat
  BY TicksSince1970, SMT DEF Times, UInt32, UInt64, Epoch, Second
<1>2. t \div Second = time.sec /\ (t % Second) * 100 = time.nsec - (time.nsec % 100)
  BY Apart DEF Times, UInt32, UInt64
<1>3. Unsigned64(time.sec) = time.sec /\ Unsigned32(time.nsec - (time.nsec % 100)) = time.nsec - (time.nsec % 100)
  BY SMT DEF Times, UInt32, UInt64, W32, W64, Unsigned32, Unsigned64
<1> HIDE DEF t
<1> QED BY <1>1, <1>2, <1>3, SMT DEF UnixTime, Quotient, Remainder, Times

\* The way there and back for a time of NTFS since 1970.
LEMMA TicksReturn ==
  ASSUME NEW ticks \in Int64, ticks >= Epoch
  PROVE  FileTime(UnixTime(ticks)) = ticks
BY SMT DEF Int64, FileTime, UnixTime, Signed64, Unsigned64, Unsigned32, Quotient, Remainder, W64, W32, Second, Epoch

\* Seconds before 1970, without sign and multiplied.
LEMMA NegativeSeconds ==
  ASSUME NEW q \in Nat, q <= 11644473600
  PROVE  Unsigned64(Unsigned64(-q) * Second) = IF q = 0 THEN 0 ELSE W64 - (q * Second)
<1>1. CASE q = 0
  BY <1>1, SMT DEF Unsigned64, W32, W64, Second
<1>2. CASE q > 0
  <2>1. Unsigned64(-q) = W64 - q
    BY <1>2, SMT DEF Unsigned64, W32, W64
  <2>2. (W64 - q) * Second = (W64 - (q * Second)) + 9999999 * W64
    BY SMT DEF W32, W64, Second
  <2>3. Unsigned64((W64 - (q * Second)) + 9999999 * W64) = W64 - (q * Second)
    BY <1>2, SMT DEF Unsigned64, W32, W64, Second
  <2> QED BY <1>2, <2>1, <2>2, <2>3
<1> QED BY <1>1, <1>2

\* The rest of a second before 1970, in nanoseconds without sign and back in ticks.
LEMMA NegativeRest ==
  ASSUME NEW r \in Nat, r < Second
  PROVE  /\ Unsigned32((-r) * 100) = IF r = 0 THEN 0 ELSE W32 - (r * 100)
         /\ Unsigned32((-r) * 100) \div 100 = IF r = 0 THEN 0 ELSE 42949672 - r
         /\ r # 0 => Unsigned32((-r) * 100) >= 1000000000
BY SMT DEF Unsigned32, W32, Second

\* The sum of both, carried over from the product.
LEMMA NegativeSum ==
  ASSUME NEW q \in Nat, q <= 11644473600, NEW s \in Int, s > -Second, s <= 42949672
  PROVE  Signed64((IF q = 0 THEN 0 ELSE W64 - (q * Second)) + s + Epoch) = (Epoch - (q * Second)) + s
<1> DEFINE z == (Epoch - (q * Second)) + s
<1>1. z \in Int /\ -(W64 \div 2) <= z /\ z < W64 \div 2
  BY SMT DEF W32, W64, Epoch, Second
<1>2. Signed64(z) = z /\ Signed64(z + 1 * W64) = z
  BY <1>1, SignedFits
<1>3. z + 1 * W64 = (W64 - (q * Second)) + s + Epoch /\ (q = 0 => z = 0 + s + Epoch)
  BY SMT DEF W32, W64, Epoch, Second
<1> QED BY <1>2, <1>3

\* The way there and back for a time of NTFS before 1970: the rest of a second is
\* negative, and as a number without sign it is 42949672 ticks too large, 4.3 seconds.
LEMMA TicksShift ==
  ASSUME NEW ticks \in Nat, ticks < Epoch
  PROVE  /\ FileTime(UnixTime(ticks)) = IF (Epoch - ticks) % Second = 0 THEN ticks ELSE ticks + 42949672
         /\ (Epoch - ticks) % Second # 0 => UnixTime(ticks).nsec >= 1000000000
<1> DEFINE q == (Epoch - ticks) \div Second
           r == (Epoch - ticks) % Second
           s == IF r = 0 THEN 0 ELSE 42949672 - r
<1>1. q \in Nat /\ r \in Nat /\ r < Second /\ Epoch - ticks = (q * Second) + r /\ q <= 11644473600
  BY SMT DEF Epoch, Second
<1>2. UnixTime(ticks) = [sec |-> Unsigned64(-q), nsec |-> Unsigned32((-r) * 100)]
  BY SMT DEF UnixTime, Quotient, Remainder, Epoch, Second
<1> HIDE DEF q, r
<1>3. FileTime(UnixTime(ticks)) = Signed64((IF q = 0 THEN 0 ELSE W64 - (q * Second)) + s + Epoch)
  BY <1>1, <1>2, NegativeSeconds, NegativeRest DEF FileTime
<1>4. s \in Int /\ s > -Second /\ s <= 42949672
  BY <1>1, SMT DEF Second
<1> HIDE DEF s
<1>5. FileTime(UnixTime(ticks)) = (Epoch - (q * Second)) + s
  BY <1>1, <1>3, <1>4, NegativeSum
<1>6. FileTime(UnixTime(ticks)) = IF r = 0 THEN ticks ELSE ticks + 42949672
  BY <1>1, <1>5, SMT DEF s, Epoch, Second
<1>7. r # 0 => UnixTime(ticks).nsec >= 1000000000
  BY <1>1, <1>2, NegativeRest
<1> QED BY <1>6, <1>7 DEF r

\* A time before 1970 in an archive, a negative number of seconds in 64 bits without
\* sign and the rest of the second above it, is the right time of NTFS.
LEMMA ArchivedBefore1970 ==
  ASSUME NEW q \in Nat, q > 0, q <= 11644473600, NEW nsec \in Nat, nsec < 1000000000
  PROVE  FileTime([sec |-> Unsigned64(-q), nsec |-> nsec]) = (Epoch - (q * Second)) + (nsec \div 100)
<1> DEFINE s == nsec \div 100
<1>1. s \in Int /\ s > -Second /\ s <= 42949672
  BY SMT DEF Second
<1> HIDE DEF s
<1>2. FileTime([sec |-> Unsigned64(-q), nsec |-> nsec]) = Signed64((W64 - (q * Second)) + s + Epoch)
  BY NegativeSeconds DEF FileTime, s
<1>3. @ = (Epoch - (q * Second)) + s
  BY <1>1, NegativeSum
<1> QED BY <1>2, <1>3 DEF s

-----------------------------------------------------------------------------
(* Files, from one version to the other and back *)

\* Version 1 has 12 bits for the major and 20 for the minor number: those come back
\* that fit, and of all others only the low bits (write_attr masks the minor number and
\* shifts the high bits of the major number out).
THEOREM RdevKeepsLowBits ==
  ASSUME NEW major \in UInt32, NEW minor \in UInt32
  PROVE
     /\ MajorV1(PackV1(major, minor)) = major % 4096
     /\ MinorV1(PackV1(major, minor)) = minor % 1048576
BY SMT DEF UInt32, W32, PackV1, MajorV1, MinorV1, Unsigned32

\* A file of version 1 that is copied to version 2 and back has its device number, and
\* its time but for what a tick is longer than a nanosecond.  Of a file that is no device
\* the unused number is lost: whatever memory held is written instead.
THEOREM VersionOneReturns ==
  ASSUME NEW file \in FilesV1, file.time.sec <= LastSecond, file.time.nsec < 1000000000,
         NEW junk \in Junk
  PROVE  LET back == WriteV1(ReadV2(WriteV2(ReadV1(file)), junk))
         IN  /\ back.time = [file.time EXCEPT !.nsec = @ - (@ % 100)]
             /\ back.rdev = IF file.device THEN file.rdev ELSE PackV1(junk.major, junk.minor)
<1> DEFINE attr == ReadV1(file)
           copy == ReadV2(WriteV2(attr), junk)
<1>1. file.time \in Times /\ file.rdev \in UInt32
  BY DEF FilesV1
<1>2. copy.time = [file.time EXCEPT !.nsec = @ - (@ % 100)]
  BY <1>1, TimeReturns DEF ReadV1, WriteV2, ReadV2
<1>3. CASE file.device
  <2>1. attr.major \in UInt32 /\ attr.minor \in UInt32
    BY <1>1, RdevParts DEF ReadV1
  <2>2. copy.major = attr.major /\ copy.minor = attr.minor
    BY <1>3, <2>1, DevReturns DEF ReadV1, WriteV2, ReadV2
  <2>3. WriteV1(copy).rdev = file.rdev
    BY <1>1, <2>2, RdevReturns DEF ReadV1, WriteV1
  <2> QED BY <1>2, <1>3, <2>3 DEF WriteV1
<1>4. CASE ~file.device
  BY <1>2, <1>4 DEF ReadV1, WriteV2, ReadV2, WriteV1
<1> QED BY <1>3, <1>4

\* A file of version 2 that is copied to version 1 and back has the time it had, from 1970
\* on; before that all but whole seconds come back 4.3 seconds late, and version 1 holds
\* nanoseconds of more than a second.  A device keeps the numbers that fit in 12 and 20 bits.
THEOREM VersionTwoReturns ==
  ASSUME NEW file \in FilesV2, file.ticks >= 0, NEW junk \in Junk
  PROVE  LET there == WriteV1(ReadV2(file, junk))
             back == WriteV2(ReadV1(there))
         IN  /\ file.ticks >= Epoch => back.ticks = file.ticks
             /\ file.ticks < Epoch =>
                   IF (Epoch - file.ticks) % Second = 0 THEN back.ticks = file.ticks
                   ELSE back.ticks = file.ticks + 42949672 /\ there.time.nsec >= 1000000000
             /\ file.device =>
                   back.dev = PackV2(MajorV2(file.dev) % 4096, MinorV2(file.dev) % 1048576)
<1> DEFINE attr == ReadV2(file, junk)
           there == WriteV1(attr)
           back == WriteV2(ReadV1(there))
<1>1. file.ticks \in Int64 /\ file.ticks \in Nat /\ file.dev \in UInt64
  BY DEF FilesV2, Int64
<1>2. there.time = UnixTime(file.ticks) /\ back.ticks = FileTime(UnixTime(file.ticks))
  <2>1. attr.time = UnixTime(file.ticks)
    BY DEF ReadV2
  <2> HIDE DEF attr
  <2>2. there.time = attr.time
    BY DEF WriteV1
  <2> HIDE DEF there
  <2>3. back.ticks = FileTime(there.time)
    BY DEF ReadV1, WriteV2
  <2> QED BY <2>1, <2>2, <2>3
<1>3. file.ticks >= Epoch => back.ticks = file.ticks
  BY <1>1, <1>2, TicksReturn
<1>4. file.ticks < Epoch =>
        IF (Epoch - file.ticks) % Second = 0 THEN back.ticks = file.ticks
        ELSE back.ticks = file.ticks + 42949672 /\ there.time.nsec >= 1000000000
  BY <1>1, <1>2, TicksShift
<1>5. ASSUME file.device
      PROVE  back.dev = PackV2(MajorV2(file.dev) % 4096, MinorV2(file.dev) % 1048576)
  <2>1. attr.major \in UInt32 /\ attr.minor \in UInt32
    BY <1>1, <1>5, DevParts DEF ReadV2
  <2>2. /\ ReadV1(there).major = attr.major % 4096
        /\ ReadV1(there).minor = attr.minor % 1048576
    <3> HIDE DEF attr
    <3>1. there.rdev = PackV1(attr.major, attr.minor)
      BY DEF WriteV1
    <3>2. MajorV1(there.rdev) = attr.major % 4096 /\ MinorV1(there.rdev) = attr.minor % 1048576
      BY <2>1, <3>1, RdevKeepsLowBits
    <3> HIDE DEF there
    <3> QED BY <3>2 DEF ReadV1
  <2>3. attr.major = MajorV2(file.dev) /\ attr.minor = MinorV2(file.dev) /\ attr.device
    BY <1>5 DEF ReadV2
  <2> HIDE DEF attr
  <2>4. there.device
    BY <2>3 DEF WriteV1
  <2> HIDE DEF there
  <2>5. ReadV1(there).device
    BY <2>4 DEF ReadV1
  <2>6. back.dev = PackV2(ReadV1(there).major, ReadV1(there).minor)
    BY <2>5 DEF WriteV2
  <2> QED BY <2>2, <2>3, <2>6
<1> QED BY <1>3, <1>4, <1>5

\* An installed file has the time of its archive, before 1970 and after, in the ticks of
\* NTFS: the product without sign and the sum carry over just once.
THEOREM InstalledTime ==
  ASSUME NEW sec \in Int, -11644473600 <= sec, sec <= LastSecond, NEW nsec \in Nat, nsec < 1000000000
  PROVE  FileTime([sec |-> Unsigned64(sec), nsec |-> nsec]) = Epoch + (sec * Second) + (nsec \div 100)
<1>1. CASE sec >= 0
  <2> DEFINE time == [sec |-> Unsigned64(sec), nsec |-> nsec]
  <2>1. Unsigned64(sec) = sec
    BY <1>1, SMT DEF Unsigned64, W64, LastSecond
  <2>2. time \in Times /\ time.sec = sec /\ time.nsec = nsec
    BY <1>1, <2>1, SMT DEF Times, UInt32, UInt64, W32, W64, LastSecond
  <2> HIDE DEF time
  <2>3. FileTime(time) = (sec * Second) + (nsec \div 100) + Epoch
    BY <2>2, TicksSince1970
  <2> QED BY <2>3, SMT DEF time, Epoch, Second
<1>2. CASE sec < 0
  <2> DEFINE q == -sec
  <2>1. q \in Nat /\ q > 0 /\ q <= 11644473600 /\ -q = sec
    BY <1>2, SMT
  <2> HIDE DEF q
  <2>2. FileTime([sec |-> Unsigned64(-q), nsec |-> nsec]) = (Epoch - (q * Second)) + (nsec \div 100)
    BY <2>1, ArchivedBefore1970
  <2> QED BY <2>1, <2>2, SMT DEF Epoch, Second
<1> QED BY <1>1, <1>2, SMT

=============================================================================
