# PacketLens in TLA+

A formal model of PacketLens, a packet-capture analyser that runs in the browser: a page
(`src/ui/app.js`), a web worker that reads and dissects a capture (`src/ui/worker.js`,
`src/core`, `src/dissectors`) and an analysis of the result (`src/analysis`). The modules
here are translated from the source; paths and lines below are those of the repository.

* [Inventory](#inventory)
* [Modules](#modules) and how their state and actions correspond to the code
* [Runs](#runs), their bounds, and what they show
* [Findings](#findings)
* [Proofs](#proofs)
* [Abstractions](#abstractions-and-assumptions)
* [Plan](#plan)

To check a run: `tlc -config MCTcpFlow.cfg MCTcpFlow`. To check the proofs of a module:
`tlapm TcpFlowProofs.tla`.

## Inventory

| Component | State | Operations | Talks to | What is hard | What makes it correct | Modelled |
|---|---|---|---|---|---|---|
| Page, `ui/app.js`, `ui/follow.js` | rows, applied filter, selection, detail cache, pending promises, generation of the session | open, go home, select, filter, follow, export, timers | worker, by numbered messages | code after an await runs in a page that has moved on | replies find their call; nothing of an old capture on the screen of a new one; every call ends | `UiSession` |
| Worker, `ui/worker.js` | the parsed capture, lazily imported modules | one handler per message | page; everything below | an import() lets the next message in half way through a handler | one reply per request; a failed load leaves the old capture | `UiSession` |
| TCP flows, `dissectors/tcp.js` | one record per pair of endpoints | `trackFlow`, the stateful part of `dissect` | the application dissectors, reassembly, alerts | mid-stream captures, late SYNs, wrap-around, retransmissions | what is counted belongs to who sent it | `TcpFlow` |
| Reassembly, `analysis/streams.js` | none between calls | `reassembleTcp`, `followStream`, `reassembleUdp` | flow records, artifact extraction, follow overlay | overlaps, holes, a cap shared by two directions | the bytes captured, in order, each once; gaps are gaps | `Reassembly`, `TcpStream` (not `reassembleUdp`) |
| Extraction, `analysis/extract.js` | none | HTTP messages, pairing, files | reassembly | bytes missing in the middle of a message | a file is whole, alone, and attributed to the request and the packet it came from | `Artifacts` |
| Pipeline, `core/dissect.js`, `core/registry.js`, `core/packet.js` | packets, shared `state`, tables of dissectors | `dissectCapture`, `dissectPacket`, `register` | every dissector | a candidate that fails after changing shared state | one owner per layer, every byte accounted for, termination | `Capture`, `Layers`, `Dissection` |
| Reader and writer, `core/reader.js` | position, interfaces, section | pcap, pcapng, export | worker | truncation, sections, interface numbers | records belong to their interface; what is exported reads back | `CaptureReader` |
| Display filter, `analysis/filter.js` | none | tokenise, parse, evaluate | worker | precedence, missing fields, never throwing | the predicate is that of the expression; an error is marked where it is | `DisplayFilter`; as a set of packets in `UiSession` |
| Summary and conversations, `analysis/index.js`, `conversations.js` | none | aggregation | finished state | sums per direction after a swap | totals agree with the records | no |
| Alerts, `analysis/iocs.js` | none | thresholds and scans | all of the above | ratios over partial handshakes | an alert has the evidence it cites | no |
| DNS, DHCP, NBNS, ARP, NTP dissectors | pending transactions, leases, bindings | parse, match, record | shared `state` | repeated and reordered messages | a response is matched with its own query; a name is one that was said of the address | `DnsState`, `HostNames`, `Layers` (ARP) |
| SMTP, POP3, IMAP, FTP, Telnet, IRC dissectors | per-stream login and body state, data channels | parse one segment | TCP record (direction), credentials | segments seen in arrival order, rejected logins | a credential is one the client sent; a mail has its own envelope; a transfer is of its own session | `Sessions` |
| HTTP, TLS, SSH, SMB dissectors | marks on the stream, credentials, files | parse one segment | TCP record | messages cut over segments | what is said of a connection was said on it | `Sessions` (HTTP), `Handshakes` |
| Link, network, transport headers | IP fragment table, UDP records | parse one packet | pipeline | lengths that disagree | payload bounds stay inside the packet | `Layers` |
| `core/bytes.js`, `core/hash.js`, `ui/views.js`, `build.mjs`, `tools/`, `fixtures/` | none | pure functions, presentation, build | | | | no |

`PROJECT.json` lists the components with what is left out of each, and, under `hazards`,
each place of the code where something can go wrong that a test would hardly reach,
with the properties that look for it.

## Modules

| Module | Models | Kind |
|---|---|---|
| `UiSession` | page and worker with their two message queues | specification, with its fairness |
| `SeqSpace` | the arithmetic of sequence numbers in `tcp.js` | operators |
| `EndpointLedger` | what a flow record promises, without directions | abstract specification |
| `TcpFlow` | one flow record, one action per packet | specification; implements `EndpointLedger` |
| `Reassembly` | one call of `reassembleTcp`, one action per turn of its loop | specification |
| `Sorting` | `Array.prototype.sort`, which is stable: the place of an element is its rank | operators |
| `TcpStream` | `TcpFlow` feeding `Reassembly`, and `followStream` | composition, extends both |
| `Artifacts` | one connection reassembled, walked as HTTP messages and carved into files | specification, extends `Reassembly` |
| `CaptureReader` | the two reading loops, the writer, an export opened again | specification |
| `DisplayFilter` | tokenizer, parser and evaluator, while a filter is typed | specification, with a reference grammar |
| `Capture` | what all dissectors share: packets come once, in order | base |
| `Layers` | the layer loop, the registry, link to transport headers, ARP, IP fragments | part of `Dissection` |
| `DnsState`, `Sessions`, `HostNames`, `Handshakes` | what the application dissectors keep between packets | parts of `Dissection` |
| `Dissection` | one capture through all of them | composition |
| `SeqLemmas` | facts about sequences used by the proofs | lemmas |
| `UiSessionProofs` | `UiSession`: types, `goHome`, the messages between page and worker | proofs |
| `TcpFlowProofs`, `CaptureReaderProofs` | theorems of the two modules | proofs |
| `ReassemblyProofs` | `Reassembly`, and `TcpStream` on top of `TcpFlowProofs` | proofs |
| `LayersProofs` | `Dissection`, the layers of a packet, the choice of a dissector, ARP conflicts | proofs |
| `ProtocolProofs` | `Dissection`, what the application dissectors keep | proofs |
| `SessionProofs` | `Dissection`, the credentials of the session protocols, on top of `ProtocolProofs` | proofs |
| `MCUiSession`, `MCTcpFlow`, `MCTcpStream`, `MCArtifacts`, `MCCaptureReader`, `MCDisplayFilter`, `MCDissection` | small instances | model checking |

Operators called *faulty variant* in a comment are never used by the specifications. Each
is a plausible mistake; `PROJECT.json` (`mutants`) says which definition it replaces and
which property then fails.

### UiSession

One JavaScript thread runs the page and one the worker, so a handler runs to its next
`await` without interruption and that is the grain of an action. A reply and the code
after the `await` it resolves are one action too (`Deliver`): the continuation is a
microtask, and nothing can come between.

| State | Code |
|---|---|
| `reqId`, `pending` | `state.reqId`, `state.pending`, app.js:10 |
| `view` | `state.rows`, `meta`, `analysis`: which load set them, and of which capture |
| `filtered`, `box` | `state.filtered` with `filterMatched`; the text in `#filter` |
| `selected`, `cache`, `shown` | `state.selected`, `state.detailCache`, the detail pane |
| `follow` | `current` of follow.js |
| `loadGen`, `reading` | `state.loadGen`; the file reads in progress with the generation each began in |
| `timers` | the `setTimeout`s of `goToPacket` (30 ms) and of the arrow keys (10 ms) |
| `inbox`, `outbox` | the messages posted and not yet handled, in either direction |
| `packets`, `modules`, `suspended` | `PACKETS`/`STATE`/`CAPTURE`; `ANALYSIS`/`filterMod`; handlers awaiting an `import()` |
| `loads` | history only: the loads begun since the last return to the start screen |

`ChooseFile`, `ReadDone`, `ReadDropped` and `ReadFails` are `openFile` and `loadSample`
around their await; `GoHome` terminates the worker, which discards both queues;
`WorkerTakes` is the synchronous part of `onmessage`, `WorkerResumes` what follows an
`import()`. In the distributed bundle the imports resolve without a turn of the event
loop, so nothing overtakes anything there: the constant `Bundled` says which build is
meant, and the unbundled one has all the behaviours of the other and more.

A capture is a model value. A detail remembers which capture it describes, which the
program does not: it is how the properties tell a stale one.

### SeqSpace, EndpointLedger, TcpFlow

`TcpFlow` has one action, `Dissect(p)`, for the whole of what `tcp.js` does to a flow
record when it dissects packet `p`: finding or creating the record and booking the packet
under a direction (20-45), turning the record round on a pure SYN from `b` (80),
recomputing the direction (82-83), the first and the expected sequence number (84-110),
and the flags, bytes and segments (111-117). 32-bit numbers are numbers modulo `Mod`;
`Signed` is `x | 0` and `Wrap` is `x >>> 0`, applied where the code applies them, also
where it compares a signed with an unsigned number (107).

`EndpointLedger` says what the record is for: one account per endpoint, each packet booked
on its sender's. It has no directions and nothing to turn round. `Ledger` in `TcpFlow` is
the refinement mapping: the account of endpoint `e` is what the record holds under the
direction it now gives to `e`.

### Reassembly, TcpStream

A byte is its position in the relative sequence space of its direction. `Call` starts
with the segments already filtered and sorted (streams.js:32-34); `Overlapped`, `Output`,
`CutOff` and `EndOfDirection` are the paths through the loop (38-59). A piece of output
remembers the positions it was copied from, so *in order* and *each once* can be said.
`Follow` is the list the call returns after its sort, and `offsetToPkt` the search in it
by extract.js:125-133.

`TcpStream` composes the two: `DissectPacket` is a step of `TcpFlow`, `Reassemble` hands its
segments to `Reassembly` (`InSequence`: those of a direction, sorted), `Assemble` is a turn
of its loop. It extends both, so the definitions of a flow that a component usually calls
`TypeOK`, `Init`, `Next`, `Spec` are `FlowTypeOK`, `FlowInit`, `FlowNext`, `FlowSpec`.
Packets carry the position in the sender's byte stream that the
program cannot see (`pos`, `PositionAssumption` in `TcpFlow`; whatever the sequence number
is, there is one), and `StreamComplete` and `RetransIsBehind` compare with it.

### Artifacts

`Carve` starts `extractArtifacts` on one connection, `Reassemble` is a turn of the loop of
`reassembleTcp`, `extractArtifacts` what follows it (extract.js:178-208), `Skip` its
`continue` for a stream no dissector called HTTP, which is reassembled all the same when it
is followed. `parseHttpMessages`, `parseChunked`, `findCRLFCRLF` and `offsetToPkt` are
operators with the names of the functions.

The text of a direction is a sequence of units: a start line with its headers, a line
break, the size of a chunk, a byte of a body. Segments and holes fall between units, and
lengths count them; the walk over the text is the program's, also where a hole has glued a
body to the headers of the next message. The conversations (`Talks`) are what the two ends
said, in messages; `FilesOfTheirMessages` compares the files with them.

### CaptureReader

| State | Code |
|---|---|
| `phase` | where `readCapture` is: before, in the loop of one format, done, or rejected |
| `file`, `o`, `blk`, `le` | the bytes, the offset in them, the block there, the section's byte order |
| `ifaceBase`, `interfaces`, `records`, `warnings` | the variables of the same names |
| `saved` | history only: what an export was made of |

Each turn of a loop is an action, named for the block it meets (`SectionHeader`,
`EnhancedPacket`, `TruncatedBlock`, ...). Lengths are in words of four bytes and the packets
are where they were read from, not what they contain. `ExportAndReopen` is the worker's
export of the packets a filter selects (worker.js:102-107), `writePcap`, and opening the
result. Records and interfaces remember the block they come from: that is history too.

### DisplayFilter

A user types into the box token by token or a stray character (`TypeToken`, `TypeStray`;
each is an `input` event), and `compileFilter` runs on every text. A unit is a blank, a
symbol, a quote or a word; `tokenize` reads units, so two words without a blank between
them are one. The recursive descent is one recursive function with the names of the
parser's functions; a predicate is the set of packets it holds for. `Means` is the
reference: the grammar in the head of filter.js (10-15) read as a relation between a list of
tokens and the packet sets it can stand for, without precedence climbing, positions or
look-ahead.

### Capture, Layers, Dissection

`Dissection` is `dissectCapture`: packets come one after the other, each is dissected to
the end, and what the dissectors learn stays in the shared state. The dissectors of
different protocols touch different parts of it, so a behaviour has traffic of one kind and
the others are left as they are; what a packet leaves behind is one action of its part.

In `Layers` the loop over the layers of a packet is spelled out. `HeaderLayer` is a link,
network or transport dissector, which names its successor; `PickCandidates`, `TryNext`,
`CandidateTakes`, `CandidateFails`, `CandidateChains` and `NoCandidate` are the choice of an
application dissector (dissect.js:44-90), whose verdict on a piece of payload is part of
the packet: take it, decline, throw, or take it and name the next. `DataLayer`,
`NoDissector` and `TooDeep` end the walk. A header has the length it takes, the length it
claims, and the type it names; checksums and field values are left out.

| State | Code |
|---|---|
| `offset`, `end`, `key`, `queue` | `offset`, `end`, `key`, the candidates not tried yet |
| `layers`, `errors` | `packet.layers`, `packet.errors` |
| `bindings`, `conflicts`, `ipfrag` | `state.ext.arp`, `state.ext.ipfrag` |
| `arps` | history only: the headers that were dissected as ARP messages |
| `names`, `answers`, `pending`, `transactions` | `state.dns` |
| `per`, `credentials`, `messages`, `dataChannels` | the streams' states in `state.ext[proto]`, `state.ext.credentials`, `.smtp.messages`, `.ftp.dataChannels` |
| `leases`, `servers`, `hostnames`, `netbios`, `byName` | `state.ext.dhcp`, `state.ext.nbns` |
| `challenges`, `trees`, `files`, `hashes`, `software`, `exchanges`, `hellos`, `certs`, `suites`, `sni` | `state.ext.smb`, `.ssh`, `.tls` and the NTLM credentials |

### DnsState, Sessions, HostNames, Handshakes

A message or a segment is what the parser finds in it, and how much of it is there: where a
parser stops half way, at a name that loops, a record that is cut off, a header that
promises more, the model stops too and keeps what the program keeps. `DnsMessage` reads a
message with compressed names, follows aliases, and opens or closes a transaction; an
address that is cut off is none, and the target of an alias that is cut off or loops is the
part that was read, under which the chain goes on (dns.js:122-125).
`SmtpParse`, `PopDissect`, `ImapDissect`, `FtpDissect`, `FtpData`, `TelnetDissect`,
`IrcDissect` and `HttpDissect` are the `dissect` functions on one segment. In a mail body
the `From:` and `To:` lines before the dot are read, the last of each counts, and they go
before the envelope (mail.js:129-147). `DhcpDissect` merges the option areas before it books
a lease, an option of fewer bytes than an address has the text that stands for it, and so
is a server of its own (dhcp.js:65, 220), and a last overload option of no effect leaves the
one before it in force (dhcp.js:138); `NbnsDissect` and `NbdgmDissect` learn
names; `SmbDissect`, `SshDissect` and `TlsDissect` keep what the first messages of a
connection say. The properties go back to the packets: each says of a piece of state which
captured messages it must come from.

## Runs

| Run | Instance | Checks | Shows |
|---|---|---|---|
| `ui_session` | unbundled, 3 captures (one unreadable), 2 packets, 2 filters (one invalid), 4 requests, 1 return home; 858,000 states | types, `OneReplyPerCall`, `GoHomeIsolation`, `ViewMatchesWorker`, `FilterOfShownCapture`, `DetailOfItsPacket`, `OneCapturePerWorkerIsSound` | page and worker stay in step through every interleaving of reads, timers, imports and replies |
| `ui_bundled` | the same, bundled; 281,000 states | `LatestLoadWins` | of overlapping loads the last one stays |
| `ui_live` | 2 captures, 1 packet, 3 requests, fairness; 19,000 states | `EveryCallEnds`, `ProgressEnds` | every request is answered or forgotten; the bar comes down |
| `tcp_flow` | 16 sequence numbers, 10 packets, captures of up to 5; 111,000 states | types, `DirsSettle`, `RetransIsBehind`, `ImplementsLedger` | the record implements the ledger, and marks as retransmissions what lies behind |
| `artifacts` | every sorted list of at most 3 segments of 1-3 bytes at positions 0-3 against 3 replies, behind a segment that leaves room for 5 bytes of the cap; 5 HTTP conversations of 2-3 exchanges, cut in up to two places, with a segment lost, repeated, late or cut anew; 72,000 states | `InOrderOnce`, `GapsAreMissing`, `NothingLost`, `BudgetIsKept`, `OffsetsAreTraced`, `FilesOfTheirMessages` | the loop is right on every overlap, hole and cut; what was sent in one piece is carved in one piece |
| `capture_file` | 2 pcap records, or up to 7 pcapng blocks in two sections of opposite byte order, cut at nearly every size, with claims that do not hold, simple packets cut short by their room or a snap length, a pcap header of another version; 81,600 states | `ReadsEveryPacket`, `OwnInterface`, `BytesOfItsBlock`, `StopsAreReported`, `ReadsBack` | what is read is what is there; an export reads back |
| `display_filter` | 4 keyboards of up to 7 tokens: logic, comparisons with and without blanks, sets; 4 packets; 39,700 states | `ReadsWhatWasTyped`, `ParsesTheGrammar`, `ErrorsAreMarked`, `ComparisonsAgree` | the parser is the grammar, also when it fails |
| `dissection` | 3 packets of layers, logins, hosts or handshakes, or 4 of dns, smtp or ftp; depth 6, 3 aliases, 3 pointers; 328,000 states | `LayersTile`, `TriedOnceInOrder`, `ConflictsAreRebinds`, `AnswersItsQuery`, `NamesFollowTheChain`, `CredentialsAreSent`, `MailHasItsEnvelope`, `TransferOfItsSession`, `LeasesAndHostNames`, `HandshakesStayApart` | what stays of a capture is what its packets said, in every order of arrival |
| `tcp_stream` | 8 packets, captures of up to 5, wrap-around at byte 2; 263,000 states | `StreamComplete` | from the wire to the bytes |
| `ui_stale_cache`, `ui_export`, `follow_loss` | as above | one property each | see [Findings](#findings) |

**Why the bounds are enough.** *UiSession*: the races are between two loads, a load and
one other request, and a request and going home. Four requests hold two loads, a request
of the first capture and one of the second; one return home splits them; three captures
allow two readable ones and a failure; packet 2 exists in one capture only, so that a
request can outlive its packet. *TcpFlow*: a turn of the record needs a packet of `y`, a
SYN of `x`, and something to compare afterwards; five packets hold two turns with data
before, between and after them. Sixteen sequence numbers put the wrap between two
segments; a packet of `x` behind a late SYN lies so far on that the relative numbers wrap
as well. `RetransIsBehind` is about the captures in which every packet lies within half the
space of what was seen before (`InWindow`); some captures of the run do not. *Reassembly*: a segment relates
to the expected position in one of the ways of lying before, across, at or after it; three
segments in a row reach each of them after each other, and the cap falls inside the first
or the second direction and at the boundary. *Artifacts*: the pairing can slip by one
message, which two exchanges show and a third confirms; two cuts put a hole before, in and
after each part of a message. *CaptureReader*: interface numbers need two sections and two
interfaces, times a rounding up to a whole second, which two ticks to the microsecond and
two microseconds to the second reach. *DisplayFilter*: precedence needs three operands
with a negation or parentheses, which seven tokens hold; every other production is shorter.
*Dissection*: a state is wrong when a packet changes what another one left; a login, an
envelope, a transaction or a key exchange takes two or three messages, and one of another
connection goes between them. For each case of the code the run has a packet that brings
it about, so that the bound is on their number and not on what they are. The depth, alias
and pointer limits are small for a packet of three layers more, or an alias more, to run
into them.
What the runs show of a small instance is proved for every instance where the
table in [Proofs](#proofs) says so.

**Deadlock** is not checked: a session may stop, a capture ends, a call returns.

**Fairness** (`FairSpec`, only for `ui_live`). The browser settles every file read, and
one file's read need not wait for another's; it fires every timer, runs the worker when a
message or a resolved import waits, and delivers messages. These are weak fairness
conditions on those actions: each stays enabled until taken or until `goHome` discards
it. Nothing is assumed of the user. `readCapture` and the dissectors terminate (one action).

## Findings

1. **A detail of the old capture is cached for the new one** (`ui_stale_cache`).
   `resetView`, by its comment, clears "everything tied to the loaded capture"
   (app.js:61), but a detail request under way is not withdrawn: its reply is stored in
   the emptied cache (163) under a packet number of the next capture. Going home between
   two captures avoids it (`OneCapturePerWorkerIsSound`).
2. **An export is of the text in the box** (`ui_export`). README.md:37 speaks of the
   current filtered packet set; `doExport` reads the filter box (app.js:345), which may have
   been edited since the filter was applied.
3. **Follow stream loses bytes** (`follow_loss`). streams.js:69-71 promises that pure
   retransmissions are dropped; the code drops every segment that starts before the
   highest end seen (tcp.js:97, streams.js:75), also one that fills a hole or brings new
   bytes after old ones.

Other behaviours met on the way that no text of the repository speaks about are listed
with a note under `hazards`.

## Proofs

Each theorem holds for every value of the constants allowed by the named assumptions of its
module, which TLC evaluates on every run:

* `SessionAssumption`, `SeqSpaceAssumption` with `FlowAssumption` and `PositionAssumption`,
  `ReassemblyAssumption`,
  `DnsAssumption`, `SessionsAssumption`, `HostNamesAssumption`, `HandshakesAssumption`: the
  constants have their types. A stream has one protocol (its ports decide), and an HTTP
  header is as long as what is read from it (`Whole`).
* `ReaderAssumption`: a file is `WellFormed`, which says what a block's fields can be (a block
  holds its own header; of a pcap file every block is a packet) and nothing of whether its
  lengths are true or the file is whole.
* `CaptureAssumption`: `None` is neither a number nor a string, so that what is absent is not
  taken for a packet or a name.
* `LayersAssumption`: a packet is `Complete`: a header that names a registered type is
  followed by what is read as that header, a transport by what is read as its payload. The
  packet may end anywhere before them. A dissector's id is unique (registry.js:5) and not the
  key of a header.

| Theorem | Says | Argument |
|---|---|---|
| `UiSessionProofs!TypeCorrect` | `Spec => []TypeOK` | one lemma per side: page actions, worker takes, worker resumes, replies |
| `UiSessionProofs!HomeIsolates` | `Spec => []GoHomeIsolation` | inductive together with `TypeOK`: its second conjunct, that every pending load call has an entry in `loads`, carries the step in which a load is answered |
| `UiSessionProofs!RepliesMatchCalls` | `Spec => []OneReplyPerCall` | `IdsInv`: every unresolved promise is one message, in the inbox, at an import or in the outbox; the three have no number in common, and their lengths add up to the number of promises |
| `UiSessionProofs!DetailsAreFiledRight` | `Spec => []DetailOfItsPacket` | `MatchInv`: the message with the number of a call has its argument, at each of the three places |
| `UiSessionProofs!ScreenIsTheWorkers` | `Spec => []ViewMatchesWorker` | `ViewInv`: the last capture in the outbox, or the one on screen if there is none, is that of the worker. It needs that only the very first load waits for the analysis module |
| `UiSessionProofs!FilterIsOfTheShownCapture` | `Spec => []FilterOfShownCapture` | `FilterInv`: a filter's answer in the outbox is of the last capture in front of it |
| `UiSessionProofs!OneCaptureIsSound` | `Spec => []OneCapturePerWorkerIsSound` | `CapInv`: whatever is on either side is of a capture opened since `goHome` |
| `UiSessionProofs!LastLoadWins` | `Spec => []LatestLoadWins` | `OrderInv`: without imports all queues are first in, first out, so the numbers rise through them |
| `TcpFlowProofs!FlowTypeCorrect` | `FlowSpec => []FlowTypeOK` | the arithmetic of `SeqSpace` stays in `Word` (`%` on an even `Mod`) |
| `TcpFlowProofs!RecordImplementsLedger` | `FlowSpec => Ledger!Spec` | step simulation under `FlowInv` (`FlowTypeOK`, and no figures before the first packet): `ReversedByEnd`, `SegmentsByEnd` and `FinalDirIsSenders` relate the record before and after a turn to the endpoints, and `DissectBooks` takes the step field by field |
| `TcpFlowProofs!DirectionsSettle` | `FlowSpec => []DirsSettle` | under `SettleInv`, a packet that is not a pure SYN leaves `a`, hence `DirOf`, alone |
| `TcpFlowProofs!RetransmissionsAreMarked` | `FlowSpec => []RetransIsBehind` | `SpaceInv`: the numbers of an endpoint are counted from one position, and the expected one is the highest end so far, up to turns of the space |
| `ReassemblyProofs!TypeCorrect` | `Spec => []TypeOK`; no run checks it any more | a piece never exceeds the budget |
| `ReassemblyProofs!OutputInOrder` | `Spec => []InOrderOnce` | `OrderInv`: the pieces of the current direction end before `expected` and there is none of a later direction |
| `ReassemblyProofs!GapsWereNotCaptured` | `Spec => []GapsAreMissing` | `GapInv`: the segments passed end before `expected`; the lists are sorted, so the others start after the gap |
| `ReassemblyProofs!EveryByteKept` | `Spec => []NothingLost` | `LossInv`: of a segment still to come, the part before `expected` has been output. `NothingLost` alone is not inductive: it does not say why a skipped segment was safe to skip |
| `ReassemblyProofs!WithinBudget` | `Spec => []BudgetIsKept` | inductive as it stands |
| `ReassemblyProofs!OffsetsLeadBack` | `Spec => []OffsetsAreTraced` | `OriginInv`: a piece lies within one segment of its direction and names its packet; with `BudgetIsKept`, the pieces of a direction share no offset |
| `ReassemblyProofs!StreamIsComplete` | `StreamSpec => []StreamComplete` | `StreamInv`: `BookInv` for the record, and once it is handed over, the invariants of the rows above and `HoleInv` for the loop; see below |
| `CaptureReaderProofs!TypeCorrect` | `Spec => []TypeOK` | with `FormatInv` and `PlaceInv`: each turn of a loop begins where a block begins |
| `CaptureReaderProofs!NothingIsSkipped` | `Spec => []ReadsEveryPacket` | `PacketsInv`: the records are the packet blocks passed, each once, and every block passed is whole |
| `CaptureReaderProofs!BytesAreItsOwn` | `Spec => []BytesOfItsBlock` | `SpanInv`, one lemma per kind of block |
| `CaptureReaderProofs!EarlyStopsAreReported` | `Spec => []StopsAreReported` | inductive with `PlaceInv` |
| `CaptureReaderProofs!InterfacesAreTheirSections` | `Spec => []OwnInterface` | `NumberInv`: the i-th interface is of the i-th block that declares one, `ifaceBase` is the number declared before the section, and a record's index counts from the base of its own section |
| `CaptureReaderProofs!ExportRoundTrip` | `Spec => []ReadsBack` | `BackInv`: the blocks of an export are the packets saved, rounded, and what has been read of them again is its first records |
| `LayersProofs!LayersTileTheirPackets` | `Spec => []LayersTile` | `LayersInv` |
| `LayersProofs!CandidatesAreTriedInOrder` | `Spec => []TriedOnceInOrder` | `LayersInv` with `CandidatesAreRanked` |
| `LayersProofs!EveryConflictIsARebind` | `Spec => []ConflictsAreRebinds` | `ArpInv`: an address is bound to what the last reply for it said |
| `ProtocolProofs!AnswersFindTheirQueries` | `Spec => []AnswersItsQuery` | `DnsInv` |
| `ProtocolProofs!TransfersFindTheirSession` | `Spec => []TransferOfItsSession` | `FtpInv` |
| `ProtocolProofs!HostsAreWhatTheySaid` | `Spec => []LeasesAndHostNames` | `HostsInv` |
| `ProtocolProofs!HandshakesAreKeptApart` | `Spec => []HandshakesStayApart` | `HandshakesInv` |
| `ProtocolProofs!MailsHaveTheirEnvelope` | `Spec => []MailHasItsEnvelope` | `SmtpInv` |
| `ProtocolProofs!AddressesHaveTheirNames` | `Spec => []NamesFollowTheChain` | `AddressInv` |
| `SessionProofs!CredentialsWereSent` | `Spec => []CredentialsAreSent` | `SentInv` |

**Sequence numbers.** The program compares words by the sign of their difference, once the
sign of a word with a word. `Same` says of two numbers that they differ by turns of the
space; sums and differences keep it (`SameSum`), and numbers that are the same and less than
the space apart are equal (`SameNear`). So for numbers up to half the space apart
the sign of the difference is that of the positions (`SignedDifference`), and the other
comparison never holds of an end that is not above the highest (`SignedIsNotAbove`). Nothing
is assumed of the length of a stream, which may run through the space many times.

**Layers.** `LayersTile` says nothing of a loop under way, so it is not inductive.
`LayersInv` adds that the loop stands where the last layer ends, and that `end`, the
bound of what it may still read, lies inside the frame and inside what every header so far
claims (`Bounded`); then a layer put at `offset` that ends before `end` fits below all
others (`TilesOneMore`). That a dissector returns no bound beyond the one it was given, and
none beyond its own claim, is `DissectedFits`; for IPv6 it takes `WalkEnds`, that the walk
over the extension headers comes to an end. Four headers are not held to `end` (`Overlong`):
a TCP data offset, the options of GRE, a PPP header and an IPv6 extension may reach beyond
it. A layer of theirs may end there too, and the property says that nothing follows it: the
loop goes on only while there are bytes left. `CandidatesAreRanked` is about `pickCandidates`
alone: the heuristic dissectors come out in the order of their registration
(`HeuristicsInOrder`), those of the ports before them. The invariant then says that what
was tried and what is left are, together, the candidates.

*ARP.* A packet of a nested encapsulation can hold several ARP headers, none, or one that the
loop never reaches, because the depth limit or a broken header stops it. So
`ConflictsAreRebinds` counts the headers that were dissected: `arps` is a history variable,
written where the dissector runs and read by nothing else. The remembered binding of an
address is that of the last reply for it (`ArpBound`), so a reply conflicts with that one or
with none; a reply with a hardware address of no length leaves nothing to compare the next
one with (arp.js:42 tests the remembered one for truth), and the property says so.

**Capture state.** The invariants of `ProtocolProofs` all say that a part of the state is a
function of the packets so far, and each theorem then says the same of an entry that was
made from it at an earlier packet.

* `DnsInv`: what is pending under a key is the query that the last message with that key
  was (`PendingInv`), and a transaction that has its answer keeps the query that was last
  when the answer came (`AnswersInv`). Without the first the second is not inductive.
* `AddressInv`: `NamesFollowTheChain`, and every address that was read has names. That an
  address is learnt only of a record that holds it whole is `AddressIsWhole`. A message
  adds to an address the names along a walk of at most `MaxHops` aliases (`NamesAreAWalk`);
  the property compares them with the names that lead to it. Those are found by a search
  that is as long as there are aliases; it is closed at its end because it cannot find a new
  name each time for longer (`ReachingIsClosed`). So each name of the walk is found
  (`NamesLeadThere`), and where an alias is the only one for its target the walk misses none
  (`NamesAreAll`): a walk over all hops would be over more aliases than there are.
* `FtpInv`: the first channel to an endpoint is of the first announcement of it, and a
  stream's file is the one it asked for last.
* `HostsInv`: the host name of a hardware address is the last one it gave, the servers are
  those that spoke, and a NetBIOS name is known exactly if a message said it before it came
  to its end or broke off (`ToldIsLearnt`).
* `HandshakesInv`: the challenges and banners of a stream are those its own segments
  brought, and it is called by the name its client asked for last (`SniOf`).
* `SmtpInv`: a stream is in a body exactly if the segments of its client say so, sender
  and recipients are those given outside of bodies, and the headers are those of the body
  under way and of none before it (`HeaderNext`).
* `SentInv`: what the state of a stream remembers (`Remembers`) is what its client said on
  it: the user of POP or FTP is the last one named, an SMTP dialogue that waits for a
  password has a user of its client's last segment, a terminal's buffer is the line begun
  last and the name it waits with is a line typed before. `CredentialsAreSent` alone is not
  inductive: it knows only of credentials that are already shown. One lemma per protocol
  takes a segment (`PopSays`, `FtpSays`, `ImapSays`, `IrcSays`, `SmtpSays`, `TelnetSays`,
  `HttpSays`).

**Recursion in proofs.** The library states induction for operators, which none of the
provers can instantiate. `SeqLemmas` has it for sets and functions instead: `NatSet` (a set
with 0 and all successors holds every number) and `Recursion` (there is a function with a
given start and step, so the one a recursive definition chooses is one). With them the
folds over messages, extension headers, options, dissectors and HTTP headers are reasoned about as any
other function. They do not reach `SelectSeq`, whose definition is a recursive operator, nor
functions that recurse over pairs or trees.

**Sorting.** `InOrder` gives each element the place that its rank is. That the places are
those of the list, each taken once (`OneOfEachRank`), is what a proof needs of it: `Follow`
is a permutation of the output (`FollowIsOut`), whichever time stamps are equal. The proof
is that of counting: of two elements the later one has all below it that the earlier one
has, and itself.

**From the wire to the reader.** `StreamIsComplete` puts the pieces together. `BookInv` says
that a stored segment is the data of one packet, numbered from the first packet of its
sender, and that every packet with data is stored; a turn of the record leaves that alone,
because it is said of senders and not of directions. In one space (`InOneSpace`) a number is
the distance of two positions (`StoredPlace`). What `Reassemble` hands over is sorted and
holds the same segments (`ListedInSequence`), so the call may be made and the invariants of
the loop hold of it. The one that `Reassembly` does not need for itself is `HoleInv`: what
lies between the first byte and `expected` has been output or is in a gap, and a gap has a
segment before and behind it. That makes the gaps all of what is missing in between, and
nothing else.

The other theorems are about the specification of one component; `Artifacts`, which runs
`Reassembly` with other variables around it, checks its properties again.

**Only model-checked.**

* Liveness (`EveryCallEnds`, `ProgressEnds`) and everything about `ENABLED`, which the
  prover does not handle.
* `FilesOfTheirMessages`, `ReadsWhatWasTyped`, `ParsesTheGrammar`, `ErrorsAreMarked` and
  `ComparisonsAgree`, which are about recursive descents.

## Abstractions and assumptions

* Rendering, progress percentages, toasts, the suggestion box and the colour of the filter
  box are left out, and so is the 250 ms during which the bar fades. Downloading a carved
  file changes no modelled state.
* An arrow key selects *some* listed packet, not the neighbour of the selected one.
* `import()` in the worker always succeeds.
* `followStream` may answer that another capture has no stream of that number; whether it
  does is left open.
* A reply from the analysis that failed is still a load (`analysis: { error }`).
* A flow's endpoints differ (`X # Y`): a host talking to its own port is one endpoint to
  `trackFlow` and everything is direction 0.
* `maxSeq` is never set and the relative acknowledgement is only displayed.
* A segment's bytes are all there: `tcp.js` counts the bytes present in the captured
  packet, so `segBytes` never shortens one. Packets carry increasing time stamps in
  `TcpStream`; `MCArtifacts` also tries the reverse order.
* `RetransIsBehind` is stated for an endpoint whose packets keep to half the space
  (`InWindow`). `StreamComplete` is stated for an endpoint whose first captured
  packet is its lowest and none of whose packets is a whole space behind it
  (`InOneSpace`), and without data on a SYN. Outside that the program
  does something else: relative numbers below the first one seen wrap to the top of the
  space (tcp.js:85), and those bytes come out last, behind a huge gap; those of a stream of
  more than 4 GB start at 0 again.
* `LatestLoadWins` is stated for the bundle: with real imports a third load can overtake a
  second one that waits for its import.
* Every action that leads to a request reserves it in `MaxCalls`, so the bound never cuts a
  handler in two; `MaxGen` bounds the returns home, `MaxPackets` the capture.

* `Artifacts`: the size of a chunk has a semicolon behind it, so that it ends where it does
  however it is followed; a body byte is no hexadecimal digit. The cut at
  `MAX_FILE_BYTES`, file types, names and hashes are left out.
* `Layers`: what an application dissector does with a piece of payload is data of the
  packet. That it changes shared state and then throws is modelled in the parts that have
  such a path (`HostNames`: a NetBIOS record cut off).
* `Sessions`, `Handshakes`: the direction of a client is constant within a stream; that a
  late SYN turns it round is `TcpFlow`'s. A stream's ports give it one protocol.

What the code does and no text of it promises, so that no property is about it:

* *Filter.* The operators are looked up in an object literal, so the words `constructor` or
  `__proto__` after a field are operators that never hold (filter.js:447).
  `tcp.port == true` compares truth values. A TCP flag is false where there is no TCP, so
  `tcp.flags.syn == false` holds of an ARP packet, unlike other comparisons of a missing field.
  An address literal that is none is an error of the filter.
* *Reader.* An obsolete packet block that claims more than it holds, and a simple one without
  room for its length or cut by a snap length beyond its room, take the bytes of the next
  block (`Truthful` in `BytesOfItsBlock`). The warning about another pcap version takes the
  place of the one about trailing bytes (`StopsAreReported`). An export carries the link type
  of interface 0 for every packet.
* *Names.* `TriedOnceInOrder` is what keeps a message that throws half way from changing the
  state twice; that what it said before it threw stays is in `LeasesAndHostNames`.
* *Mail and FTP.* `MailHasItsEnvelope` leaves out clients that log in: what they send while
  the program waits for a password is no command to it. The recipients of a mail are not reset with the next `MAIL FROM`; a data
  channel is never removed, so a later transfer to the same endpoint is shown for the first
  session that named it.
* *Extraction.* A 1xx answer, or a `HEAD` answered with a length, shifts or swallows the
  answers that follow (`Ordinary` in `FilesOfTheirMessages`).

**Not modelled**: the aggregation of the finished state (summary, conversations, IOCs and
alerts: one pass of sums, sets and thresholds, without a guard that depends on an earlier
packet), the labels of the packet list, time deltas and tags (`finalize` and what it reads),
NTP and the UDP flow record (no state a later packet reads, but for sums), `reassembleUdp`
(a concatenation by time), regular expressions (`matches`), hashes and fingerprints, what
the parsers print of the fields, the views, the build and the tools.

## Plan

The components that keep state are modelled, and what is checked of them is proved, except
for the properties listed above. Of the model, `reassembleUdp` and the scan alert over the flow records of `TcpFlow` are the
parts that could still be added.
