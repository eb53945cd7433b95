--------------------------- MODULE CaptureReader ---------------------------
(***************************************************************************)
(* Reading and writing capture files (src/core/reader.js) and what the     *)
(* worker does around it: the link type a packet is dissected with         *)
(* (core/dissect.js) and the export of some of the packets (ui/worker.js). *)
(* Each turn of a reading loop is a step.                                  *)
(*                                                                         *)
(* A file is the list of its blocks (pcapng) or records (pcap) and its     *)
(* size: a file cut short has blocks that lie beyond its end.  Lengths and *)
(* positions are in words of four bytes, times in ticks.  The bytes of a   *)
(* packet are the half-open range of positions they were taken from.       *)
(* Options, comments and the name resolution block are left out.           *)
(***************************************************************************)
EXTENDS Integers, Sequences, FiniteSets

CONSTANTS Files,       \* the files that may be opened
          UsPerSec,    \* microseconds in a second
          TicksPerUs,  \* ticks in a microsecond
          None

PcapHeader == 6   \* words before the first record
RecordHeader == 4 \* words before the bytes of a record
Overhead == 3     \* words of a pcapng block beside its body
PacketHead == 5   \* words of an EPB's or PB's body before the bytes
Second == UsPerSec * TicksPerUs

PacketTypes == {"EPB", "SPB", "PB"}
Formats == {"pcap", "pcapng", "unknown"}

\* One block or record.  `len` is its claimed extent, `le` its byte order, `bom`
\* whether a section header's byte-order magic is one of the two known ones, `ts`
\* the time in units of `res` ticks.  Fields another type has are unused.
Block == [type : PacketTypes \cup {"SHB", "IDB", "REC", "OTHER"}, len : Nat, le : BOOLEAN,
          bom : BOOLEAN, id : Nat, cap : Nat, orig : Nat, ts : Nat, link : Nat, snap : Nat, res : Nat]
\* `v2` is whether the header of a pcap file claims major version 2.
File == [format : Formats, v2 : BOOLEAN, blocks : Seq(Block), size : Nat, link : Nat]

\* Where each block begins if the first one begins at `head`, and where the last ends.
Starts(head, bs) ==
    LET at[k \in 1 .. Len(bs) + 1] == IF k = 1 THEN head ELSE at[k - 1] + bs[k - 1].len IN at
FirstAt(f) == IF f.format = "pcap" THEN PcapHeader ELSE 0

\* What the formats say of a file, however it was cut: a record is its header and its
\* bytes; the first block is a section header, and the blocks of a section are in its
\* byte order.  A block may be shorter or longer than what it claims to hold.
IsPcap(f) == \A k \in DOMAIN f.blocks : f.blocks[k].type = "REC" /\ f.blocks[k].len = RecordHeader + f.blocks[k].cap
IsPcapng(f) ==
    /\ f.blocks # <<>> => f.blocks[1].type = "SHB"
    /\ \A k \in DOMAIN f.blocks :
          /\ f.blocks[k].type # "REC"
          /\ k > 1 /\ f.blocks[k].type # "SHB" => f.blocks[k].le = f.blocks[k - 1].le
WellFormed(f) ==
    /\ f.format = "pcap" => IsPcap(f)
    /\ f.format = "pcapng" => IsPcapng(f)
    /\ f.format # "unknown" => f.size <= Starts(FirstAt(f), f.blocks)[Len(f.blocks) + 1]

ASSUME ReaderAssumption ==
    /\ Files \subseteq File
    /\ UsPerSec \in Nat \ {0} /\ TicksPerUs \in Nat \ {0}
    /\ \A f \in Files : f # None /\ WellFormed(f)

VARIABLES
    phase,       \* "idle", "pcap" or "pcapng" (in the loop), "read", "rejected"
    file,        \* the file being read, or read last
    o, blk,      \* position in the file; the block that begins there
    le,          \* byte order of the current section
    ifaceBase, interfaces, records, warnings,
    saved        \* history: what the last export saved, None before one

vars == <<phase, file, o, blk, le, ifaceBase, interfaces, records, warnings, saved>>

\* `iface` is an index as in the code, from 0; `blk` is history: the block an
\* interface or a record comes from.
Interface == [link : Nat, snap : Nat, res : Nat, blk : Nat]
Record == [ts : Nat, cap : Int, orig : Nat, from : Nat, to : Nat, iface : Nat, blk : Nat]
Saved == [ts : Nat, len : Nat, orig : Nat, link : Nat]

TypeOK ==
    /\ phase \in {"idle", "pcap", "pcapng", "read", "rejected"}
    /\ file \in File \cup {None}
    /\ o \in Nat /\ blk \in Nat
    /\ le \in BOOLEAN
    /\ ifaceBase \in 0 .. Len(interfaces)
    /\ interfaces \in Seq(Interface)
    /\ records \in Seq(Record)
    /\ warnings \subseteq {"version", "order", "truncated", "epb", "trailing", "no interface"}
    /\ saved \in Seq(Saved) \cup {None}
    /\ phase # "idle" => file \in File

Init ==
    /\ phase = "idle" /\ file = None
    /\ o = 0 /\ blk = 1 /\ le = TRUE
    /\ ifaceBase = 0 /\ interfaces = <<>> /\ records = <<>> /\ warnings = {}
    /\ saved = None

-----------------------------------------------------------------------------
(* Opening: the magic number decides *)

\* A file that ends inside its header reads as link type 0.
FileInterface(f) == [link |-> IF f.size < PcapHeader THEN 0 ELSE f.link, snap |-> 0, res |-> 1, blk |-> 0]

\* A file that ends before its version does not claim version 2.
VersionWarning(f) == IF f.format = "pcap" /\ (~f.v2 \/ f.size < 2) THEN {"version"} ELSE {}

\* The state in which the loop over f begins.
Begin(f) ==
    /\ file' = f
    /\ phase' = IF f.size = 0 \/ f.format = "unknown" THEN "rejected" ELSE f.format
    /\ o' = FirstAt(f)
    /\ blk' = 1 /\ le' = TRUE
    /\ ifaceBase' = 0
    /\ interfaces' = IF f.format = "pcap" THEN <<FileInterface(f)>> ELSE <<>>
    /\ records' = <<>> /\ warnings' = VersionWarning(f)

OpenFile == phase = "idle" /\ (\E f \in Files : Begin(f)) /\ UNCHANGED saved

-----------------------------------------------------------------------------
(* readPcap *)

Current == file.blocks[blk]
AtEnd(head) == o + head > file.size \/ blk > Len(file.blocks)

\* subarray stops at the end of the file, and is empty where it would end before it begins.
EndOfBytes(from, len) == IF from + len <= file.size THEN from + len ELSE file.size
Bytes(from, len) == [from |-> from, to |-> IF EndOfBytes(from, len) < from THEN from ELSE EndOfBytes(from, len)]

MakeRecord(b, ts, cap, from, iface) ==
    [ts |-> ts, cap |-> cap, orig |-> b.orig, iface |-> iface, blk |-> blk,
     from |-> Bytes(from, cap).from, to |-> Bytes(from, cap).to]

ReadRecord ==
    /\ phase = "pcap" /\ ~AtEnd(RecordHeader)
    /\ o + RecordHeader + Current.cap <= file.size
    /\ records' = Append(records, MakeRecord(Current, Current.ts * Current.res, Current.cap, o + RecordHeader, 0))
    /\ o' = o + RecordHeader + Current.cap
    /\ blk' = blk + 1
    /\ UNCHANGED <<phase, file, le, ifaceBase, interfaces, warnings, saved>>

TruncatedRecord ==
    /\ phase = "pcap" /\ ~AtEnd(RecordHeader)
    /\ o + RecordHeader + Current.cap > file.size
    /\ warnings' = warnings \cup {"truncated"}
    /\ o' = o + RecordHeader
    /\ phase' = "read"
    /\ UNCHANGED <<file, blk, le, ifaceBase, interfaces, records, saved>>

\* Faulty variant: nobody looks at what is left.
NothingLeft == warnings
LeftOver == IF o # file.size /\ warnings = {} THEN {"trailing"} ELSE warnings

EndOfRecords ==
    /\ phase = "pcap" /\ AtEnd(RecordHeader)
    /\ warnings' = LeftOver
    /\ phase' = "read"
    /\ UNCHANGED <<file, o, blk, le, ifaceBase, interfaces, records, saved>>

-----------------------------------------------------------------------------
(* readPcapng: one turn of its loop is the current block *)

InLoop == phase = "pcapng" /\ ~AtEnd(Overhead)

\* Faulty variants: the order of the section before; one numbering for all sections.
StaleOrder == le
OneNumbering == 0

\* A section header is recognised in either byte order, and sets it.
Order == IF Current.type = "SHB" THEN Current.le ELSE le
BaseNow == IF Current.type = "SHB" THEN Len(interfaces) ELSE ifaceBase

\* A number read in the wrong byte order is far too large.
TotalLen == IF Current.le = Order THEN Current.len ELSE file.size + 1
Fits == TotalLen >= Overhead /\ o + TotalLen <= file.size

Leave(why, ifs) ==
    /\ warnings' = warnings \cup why \cup (IF ifs = <<>> THEN {"no interface"} ELSE {})
    /\ interfaces' = IF ifs = <<>> THEN <<[link |-> 1, snap |-> 0, res |-> TicksPerUs, blk |-> 0]>> ELSE ifs
    /\ phase' = "read"
    /\ UNCHANGED <<file, o, blk, records, saved>>

BadByteOrder ==
    /\ InLoop /\ Current.type = "SHB" /\ ~Current.bom
    /\ Leave({"order"}, interfaces)
    /\ UNCHANGED <<le, ifaceBase>>

TruncatedBlock ==
    /\ InLoop /\ (Current.type = "SHB" => Current.bom)
    /\ ~Fits
    /\ le' = Order /\ ifaceBase' = BaseNow
    /\ Leave({"truncated"}, interfaces)

EndOfBlocks ==
    /\ phase = "pcapng" /\ AtEnd(Overhead)
    /\ Leave({}, interfaces)
    /\ UNCHANGED <<le, ifaceBase>>

\* `o += totalLen` at the end of a turn.
NextBlock == o + TotalLen
ToNextBlock ==
    /\ o' = NextBlock /\ blk' = blk + 1
    /\ le' = Order /\ ifaceBase' = BaseNow
    /\ UNCHANGED <<phase, file, saved>>

Turn(type) ==
    /\ InLoop /\ Current.type \in type
    /\ Current.type = "SHB" => Current.bom
    /\ Fits
    /\ ToNextBlock

SectionHeader == Turn({"SHB"}) /\ UNCHANGED <<interfaces, records, warnings>>

OtherBlock == Turn({"OTHER"}) /\ UNCHANGED <<interfaces, records, warnings>>

InterfaceDescription ==
    /\ Turn({"IDB"})
    /\ interfaces' = Append(interfaces, [link |-> Current.link, snap |-> Current.snap, res |-> Current.res, blk |-> blk])
    /\ UNCHANGED <<records, warnings>>

\* Words between the start of the body and its end.
Room == TotalLen - Overhead
BodyAt == o + 2

Index(id) == BaseNow + id
Resolution(i) == IF i < Len(interfaces) THEN interfaces[i + 1].res ELSE TicksPerUs

PacketFits == PacketHead + Current.cap <= Room

EnhancedPacket ==
    /\ Turn({"EPB"})
    /\ PacketFits
    /\ LET i == Index(Current.id)
       IN records' = Append(records, MakeRecord(Current, Current.ts * Resolution(i), Current.cap, BodyAt + PacketHead, i))
    /\ UNCHANGED <<interfaces, warnings>>

\* `break` leaves the switch, not the loop.
TruncatedPacket ==
    /\ Turn({"EPB"})
    /\ ~PacketFits
    /\ warnings' = warnings \cup {"epb"}
    /\ UNCHANGED <<interfaces, records>>

\* The snap length of the section's first interface, 0 for none.
FirstSnap == IF BaseNow < Len(interfaces) THEN interfaces[BaseNow + 1].snap ELSE 0
IsSnapped == FirstSnap # 0 /\ FirstSnap < Current.orig

\* Faulty variant: only the snap length cuts a packet short.
SnappedOnly == IF IsSnapped THEN FirstSnap ELSE Current.orig

\* A simple packet has no time, no interface number and no captured length.  In a block
\* without room for its one field the length is negative, and there are no bytes.
SimpleCap == IF IsSnapped THEN FirstSnap
             ELSE IF Current.orig <= Room - 1 THEN Current.orig ELSE Room - 1

SimplePacket ==
    /\ Turn({"SPB"})
    /\ records' = Append(records, MakeRecord(Current, 0, SimpleCap, BodyAt + 1, BaseNow))
    /\ UNCHANGED <<interfaces, warnings>>

\* Not compared with the length of its block, unlike the enhanced one.
ObsoletePacket ==
    /\ Turn({"PB"})
    /\ LET i == Index(Current.id)
       IN records' = Append(records, MakeRecord(Current, Current.ts * Resolution(i), Current.cap, BodyAt + PacketHead, i))
    /\ UNCHANGED <<interfaces, warnings>>

-----------------------------------------------------------------------------
(* The packets of a capture and their export *)

\* The interface a packet is dissected with: the one of its index, else the first.
InterfaceOf(r) == IF r.iface < Len(interfaces) THEN interfaces[r.iface + 1] ELSE interfaces[1]

Sec(ts) == ts \div Second

\* Faulty variant: a fraction that rounds to a whole second starts again at 0.
UsecWithoutCarry(ts) == (((ts % Second) + TicksPerUs \div 2) \div TicksPerUs) % UsPerSec

\* Math.round: half a microsecond is rounded up, to a whole second if need be.
Usec(ts) == ((ts % Second) + TicksPerUs \div 2) \div TicksPerUs

\* A record as writePcap lays it out and readPcap reads it: sec + usec / 1e6.
Written(r) ==
    [type |-> "REC", len |-> RecordHeader + r.to - r.from, le |-> TRUE, bom |-> TRUE, id |-> 0,
     cap |-> r.to - r.from, orig |-> r.orig, ts |-> Sec(r.ts) * UsPerSec + Usec(r.ts),
     link |-> 0, snap |-> 0, res |-> TicksPerUs]

\* The records whose packet the filter selects, in capture order.
Picked(sel) ==
    LET kept[i \in 0 .. Len(records)] ==
            IF i = 0 THEN <<>>
            ELSE IF records[i].blk \in sel THEN Append(kept[i - 1], records[i]) ELSE kept[i - 1]
    IN kept[Len(records)]

\* writePcap: every packet under the link type of the first interface.
writePcap(recs) ==
    LET bs == [i \in DOMAIN recs |-> Written(recs[i])]
    IN [format |-> "pcap", v2 |-> TRUE, blocks |-> bs, size |-> Starts(PcapHeader, bs)[Len(bs) + 1], link |-> interfaces[1].link]

\* The export is written, and opened again (bound: one export in a behaviour).
ExportAndReopen(sel) ==
    /\ phase = "read" /\ saved = None
    /\ saved' = [i \in DOMAIN Picked(sel) |->
                   [ts |-> Picked(sel)[i].ts, len |-> Picked(sel)[i].to - Picked(sel)[i].from,
                    orig |-> Picked(sel)[i].orig, link |-> InterfaceOf(Picked(sel)[i]).link]]
    /\ Begin(writePcap(Picked(sel)))

-----------------------------------------------------------------------------
Pcap == ReadRecord \/ TruncatedRecord \/ EndOfRecords
Pcapng == BadByteOrder \/ TruncatedBlock \/ EndOfBlocks \/ SectionHeader \/ OtherBlock
          \/ InterfaceDescription \/ EnhancedPacket \/ TruncatedPacket \/ SimplePacket \/ ObsoletePacket

Next ==
    \/ OpenFile
    \/ Pcap
    \/ Pcapng
    \/ \E sel \in SUBSET {records[i].blk : i \in DOMAIN records} : ExportAndReopen(sel)

Spec == Init /\ [][Next]_vars

-----------------------------------------------------------------------------
(* Properties *)

StartOf(k) == Starts(FirstAt(file), file.blocks)[k]
EndOf(k) == StartOf(k) + file.blocks[k].len

\* A block is reached if it and all before it are whole and well formed.
Whole(k) == /\ EndOf(k) <= file.size
            /\ file.blocks[k].type = "SHB" => file.blocks[k].bom
            /\ file.format = "pcapng" => file.blocks[k].len >= Overhead
Reached(k) == \A j \in 1 .. k : Whole(j)
HoldsPacket(k) ==
    LET b == file.blocks[k]
    IN b.type \in {"REC", "SPB", "PB"} \/ (b.type = "EPB" /\ PacketHead + b.cap <= b.len - Overhead)

\* What was read is the packets of the file, in its order: a block cut off, a byte
\* order that changes half way, a packet longer than its block or a block of no
\* interest loses none of the others (reader.js:68-82, 130-228).
ReadsEveryPacket ==
    phase = "read" =>
        /\ {records[i].blk : i \in DOMAIN records} = {k \in DOMAIN file.blocks : Reached(k) /\ HoldsPacket(k)}
        /\ \A i, j \in DOMAIN records : i < j => records[i].blk < records[j].blk

\* Interfaces are numbered per section and kept in one list: the interface a packet
\* is dissected with is the one its block names in its own section, if that section
\* had declared it by then (reader.js:139, 178-179, 194, 204; dissect.js:31).
SectionOf(k) == CHOOSE j \in 0 .. k : /\ j = 0 \/ file.blocks[j].type = "SHB"
                                     /\ \A m \in j + 1 .. k : file.blocks[m].type # "SHB"
Declared(k) == {j \in SectionOf(k) + 1 .. k : file.blocks[j].type = "IDB"}
OwnInterface ==
    phase = "read" /\ file.format = "pcapng" =>
        \A i \in DOMAIN records :
            LET r == records[i]
                id == IF file.blocks[r.blk].type = "SPB" THEN 0 ELSE file.blocks[r.blk].id
            IN id < Cardinality(Declared(r.blk)) =>
                   /\ InterfaceOf(r).blk \in Declared(r.blk)
                   /\ Cardinality(Declared(InterfaceOf(r).blk)) = id + 1

\* The bytes of a packet are inside the block it was read from, so no two packets share
\* bytes, and a simple packet, which has no captured length, is as long as the original
\* unless the snap length of its section's first interface or the end of its block cuts it
\* short.  Two kinds of block are not looked at, for the code does not compare them with
\* their length: an obsolete packet block that claims more than it holds, and a simple one
\* without room for its one field, or cut short by a snap length that is more than it
\* holds (reader.js:183, 193-198, 206).
Least(S) == CHOOSE j \in S : \A m \in S : j <= m
Snap(k) == IF Declared(k) = {} THEN 0 ELSE file.blocks[Least(Declared(k))].snap
RoomOf(k) == file.blocks[k].len - Overhead - 1
Limits(k) == {file.blocks[k].orig, RoomOf(k)} \cup ({Snap(k)} \ {0})
Truthful(k) ==
    LET b == file.blocks[k]
    IN CASE b.type = "PB" -> PacketHead + b.cap <= b.len - Overhead
         [] b.type = "SPB" -> RoomOf(k) >= 0 /\ (Snap(k) # 0 /\ Snap(k) < b.orig => Snap(k) <= RoomOf(k))
         [] OTHER -> TRUE
BytesOfItsBlock ==
    phase = "read" =>
        \A i \in DOMAIN records :
            LET r == records[i]
            IN Truthful(r.blk) =>
                   /\ StartOf(r.blk) < r.from /\ r.from <= r.to /\ r.to <= EndOf(r.blk)
                   /\ r.to - r.from = r.cap
                   /\ file.blocks[r.blk].type = "SPB" =>
                          r.cap \in Limits(r.blk) /\ \A n \in Limits(r.blk) : r.cap <= n

\* Reading stops before the end only with a warning that says so, unless what is left is
\* shorter than a pcapng block can be, or than the header of a record in a file whose
\* version was warned of: that warning takes the place of the one for trailing bytes
\* (reader.js:64, 74-77, 83, 130, 137, 146-149).
StopsAreReported ==
    phase = "read" /\ warnings \cap {"order", "truncated", "trailing"} = {} =>
        \/ o = file.size
        \/ file.format = "pcapng" /\ file.size - o < Overhead
        \/ file.format = "pcap" /\ "version" \in warnings /\ file.size - o < RecordHeader

\* An exported selection reads back as the packets that were selected: as many, each
\* with its bytes and lengths, and the time to half a microsecond, also where that rounds
\* up to a whole second (worker.js:102-107, reader.js:68-82, 238-257).
ReadsBack ==
    phase = "read" /\ saved # None =>
        /\ Len(records) = Len(saved) /\ warnings = {}
        /\ \A i \in DOMAIN saved :
              /\ records[i].to - records[i].from = saved[i].len
              /\ records[i].cap = saved[i].len /\ records[i].orig = saved[i].orig
              /\ 2 * (records[i].ts - saved[i].ts) \in -TicksPerUs .. TicksPerUs
=============================================================================
