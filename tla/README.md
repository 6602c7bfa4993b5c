# TankConvertor in TLA+

TankConvertor (`tbconvert`) reads a *tank*, a file of Earthworm TRACEBUF2
messages, and writes its waveforms as SAC files or as one miniSEED file. This
directory holds a specification of it in TLA+, translated from the C source,
with TLC configurations and TLAPS proofs. Line numbers are those of the
repository at the commit the files stand beside.

## The system

The program is sequential: one thread, one pass over the tank, one pass per
trace. What makes it hard is not concurrency but the file, which nobody
guarantees to be well formed, the fixed-size buffers, and state that survives
from one packet to the next. The miniSEED half of it is libmseed, which the
repository carries with it: the program hands it messages and has it write a
file. Reading such files, and selecting from them, is in the repository as
well, though the program itself does not call it.

| part | source | state | operations |
| --- | --- | --- | --- |
| main program | `src/tbconvert.c` `main`, `proc_argv` | arguments, format, the mapping, exit status | parse arguments, map, scan, convert every trace, unmap |
| tank scan | `src/tbconvert.c` `scan_tracebuf`, `tree2list`, `sort_tlist`; `src/compare.c` | `tankbyte`, the tree of `TRACE_NODE`s, every node's `tlist`, `ntbuf`, `maxtbuf`; `TraceList` | slide over junk, look up a channel, track a message, double a list, sort |
| byte swapping and check | `src/libsrc/swap.c` | the mapped bytes, in place | check and swap one header and its data |
| SAC conversion | `src/sacproc.c` | output buffer, `seis`, `nsamp_trace`, `endtime`, `samprate` | fill a gap, skip a duplicate, store a packet, grow the buffer, write the file |
| miniSEED conversion | `src/msproc.c` | one `MS3Record`, a static conversion buffer | hand every packet to the trace list |
| trace list | `libmseed/tracelist.c` | trace IDs with doubly linked lists of segments | `mstl3_addmsr`: append, prepend, insert, heal; `mstl3_pack` |
| record packing | `libmseed/pack.c`, `packdata.c`, `fileutils.c` | record buffer, samples packed | pack a segment into records, with headers, blockettes and encodings; write them |
| record reading | `libmseed/unpack.c`, `unpackdata.c`, `genutils.c`, `gmtime64.c`, `extraheaders.c` | one `MS3Record` | the header, the blockettes and the samples of a record; times, identifiers, extra headers |
| file reading | `libmseed/fileutils.c`, `parseutils.c` | `MS3FileParam`: buffer, offsets, end of file | detect, parse, skip, shift, fill, byte ranges |
| selections | `libmseed/selection.c` | a list of patterns with windows of time | read a file of them, match a record |
| progress bar | `src/progbar.c` | `TotalDuty`, `CompDuty` | init, increment, print |

The parts interact through shared memory. The scan and both converters read the
same private, *writable* mapping; the check swaps bytes in it, so what the
converters see is what the scan left. The scan hands the converters a list of
nodes, each with the offsets, sizes and end times of its messages sorted by
time; the converters read the headers again through the offsets. Every
converter counts a duty of the progress bar when it is through with a trace.
The trace list is built by one function and read by another that leaves it as
it is; the packing hands finished records to a handler that writes them and
cannot report that it could not. The reader of files keeps a buffer between
calls, and whether a record is whole depends on where that buffer happens to
end.

### What is hard, and what makes each part correct

* **Scan.** Bytes that look like a header may stand anywhere, overlap a true
  header, be of either byte order, and their numbers may be anything. A refused
  look-alike has been swapped already. A message that fails the sanity check
  still decides how far the scan jumps. Correct is: what is counted lies in the
  file apart from each other, is true of the bytes and stays true; the slot
  written to exists; the scan moves on and ends; a file of good messages is
  catalogued completely.
* **SAC conversion.** Gaps are filled from a rounded estimate into a buffer
  that grows by a fixed step; packets may straddle a reallocation; duplicates
  are told by end times; a dropped packet leaves `endtime` where it was.
  Correct is: the buffer is not overrun, stored packets are whole and in order,
  `npts` is what was written, no packet is stored twice, sample *x* is the
  sample of time `b + x * delta`.
* **miniSEED conversion, trace list, packing.** Segments are joined by time,
  rate and sample type with tolerances; a record may close the gap between two
  segments; joining and packing can stop in the middle with an error. Correct
  is: every packet is in exactly one segment, segments of one channel are in
  order, neighbours in a segment carry on from each other, no gap stays open
  that was closed, records hold the samples of the segment in order and with
  their times, and a flush leaves none behind.
* **Records.** Seven differences compete for a word of 32 bits, a record ends
  where the room ends and not where the samples do, times are cut to the
  resolution of the format, a rate becomes a factor and a multiplier of 16
  bits, extra headers become bits and blockettes. Correct is: what is read back
  is what was packed.
* **Reading.** A record may be cut by the end of the buffer, of the file or of a
  range; version 2 states its length in a blockette, which may be missing; what
  is no record is skipped or is an error; data is unpacked late when there are
  selections. Correct is: the records come in order, each once, wherever the
  buffer ends; a selection selects what its line asks for; every call ends.
* **Main and progress bar.** Results are ignored. Correct is: the command line
  is understood as described, every trace of the list is handed to the
  converter once, and a complete conversion reaches 100%.

`PROJECT.json` lists these as hazards, each at its line, with the properties
that watch it.

## Modules

    Catalogue            what a scan promises (abstract specification)
      ^ refined by
    TankScan             scan_tracebuf() with the check and the in-place swap
    SacTrace             sacproc_trace_output() for one trace
    TankConvert          main() to SAC, and to miniSEED in two steps:
                         extends TankScan, instantiates SacTrace

    CommandLine          proc_argv()
    TraceList            mstl3_addmsr()
      MseedTrace         msproc_tlist_add(): extends TraceList
      MseedFile          mstl3_writemseed(), mstl3_pack(): extends TraceList
    MseedConvert         main() to miniSEED: extends CommandLine, MseedTrace,
                         MseedFile

    Calendar             times and dates
      TimeString         times as text
    SourceId             identifiers and the codes of version 2
      ExtraHeaders       extra headers: extends TimeString, SourceId
        Blockettes       flags and blockettes of version 2
    SampleRate           factor and multiplier
    Encodings            Steim-1 and Steim-2 words, fixed sizes
    MseedRecord          packing a segment and reading it back: extends
                         Blockettes, SampleRate, Encodings

    Selection            selection.c: extends SourceId
      Wanted             what lines of selections ask for (reference)
        RecordScan       what reading a file promises (abstract specification)
          ^ refined by
        MseedReader      ms3_readtracelist_selection(), ms3_readmsr_selection()

    MCTankScan, MCSacTrace, MCTankConvert, MCMseedConvert, MCMseedRecord,
    MCMseedReader        small instances for TLC
    TankScanProofs, SacTraceProofs, TankConvertProofs, MseedConvertProofs,
    TraceListProofs, CalendarProofs, MseedRecordProofs, MseedReaderProofs
                         theorems

### TankScan

The tank is a function from offsets to what the bytes from there on read as:
`Junk` where no known datatype stands at bytes 57 and 58, else a header record.
So every look-alike at every offset is a header of its own, and headers may
overlap. A header keeps the numbers the code tells apart: channel, byte order,
the digit of the datatype that the check uses, the width `atoi()` reads (which
goes on past the digit: the third character need not be a NUL), the sample
count, whether the end time fits, the end time.

`AfterCheck(o)` is the effect of `swap_wavemsg2_makelocal()` on the mapping. A
header in the host's order is left alone; an accepted one of the other order is
relabelled; a refused or inconsistent one has been swapped and not relabelled,
and so have the first 40 bytes from it on, which may be the numbers of other
headers. What those read as afterwards is any element of `Readings`. (The four
bytes of a TRACEBUF2.1 conversion factor, which are swapped as well, are left
out: they may only spoil the label of a look-alike at most six bytes on.)

| action | code |
| --- | --- |
| `Slide` | result -1, next byte or out of the loop, `tbconvert.c:151-161` |
| `PassTooLarge` | the `continue` of a size over `MAX_TRACEBUF_SIZ`, 225-231 |
| `PassInconsistent` | result -2: the channel is looked up, the entry written but not counted |
| `Track` | result 0: counted, the list doubled when it becomes full |
| `SwapPastEnd` | the samples of the last message are swapped behind the file, `swap.c:261-294` |
| `NodeFails`, `SlotsFail` | the `return -1`s of a failed allocation, 195-205 and 242-248 |
| `SortAll` | `twalk()` with `tree2list` and `sort_tlist`, 251-255 |

A size is computed in `size_t`. `TooLarge` and `Size` model it by the integer it
stands for: below zero it is larger than any limit, and added to the pointer it
goes back. Phase `outside` is the scan at bytes that are not mapped, where the
model stops: a pointer before the mapping, or (`SwapPastEnd`) samples of an
accepted message of the other order that are swapped although the file ends
before they do. Behind the end of the file there are zero bytes as far as the
page goes, and then none, so `SwapPastEnd` is a choice beside `Track`.

`Catalogue` is the abstract specification: a set of messages is filed, the first
of the file first, each under its channel, then every list is sorted and the
catalogue closed. `TankScan!Promise` is the refinement mapping: the messages not
filed yet are the headers at or after `pos`, the index is `tlist`.

### SacTrace

The input is any list of packets sorted by end time. The output is counted in
words and each word remembers which sample of which packet it is, or that it is
a fill. `cap` is what the buffer holds after the SAC header, `Len(out)` is
`seis`. The first half of an iteration decides between first packet, gap,
duplicate and plain continuation (`FirstPacket`, `Follows`, `SkipDuplicate`,
`SkipBogus`, `FillGap`, `FillFails`), the second half stores
(`SkipUnsupported`, `StoreFits`, `StoreGrows`, `StoreFails`), then the header
and the file are written (`WriteFile`, `WriteFails`; `OpenFails` is the
unchecked result of `fopen()`). The number of fill words
is a single-precision product cut to an integer: when the gap is a whole number
of periods it comes out as that number or one less, and `Fills` has both.
`pos`, `bogus` and `cut` are history variables for the properties. Values of
samples, and the text fields of the header, are left out.

`newsize` is a `size_t`. `NewSize` is the integer it is computed from and
`Exceeds` the comparison: below zero, which takes negative counts, it has wrapped
and is larger than any buffer. So a packet that would fit is called bogus, and
`BogusEndsTrace` is about traces without a negative count up to the bogus packet:
behind one, a later packet that brings the size above zero is stored again.

### TankConvert

`main()` from the mapping of the file to its end. The scan is `TankScan` as it
stands (`Scan`); the conversion of a trace to SAC is an instance of `SacTrace`
with its own variables (`SacStep`), begun with the packets read through the
scan's entries from the mapping *as it is by then* (`BeginSac`, `PacketAt`) and
with a buffer for the slots the scan gave the list. One tick of time is one
sample. The results are not looked at, so `SacReturns` and `SacReturnsError`
both go on with the next trace. A trace is handed to libmseed in one step
(`AddTrace`: the messages whose type is known, in the list's order; a record
that is freed with a pointer into the mapping ends the program), and the file
is written in one (`Pack`, `PackFails`). `CompDuty` is the one counter that
`main()` and `SacTrace` share.

A message the end of the file cuts off is read to the end its entry gives. The
bytes behind the file are zero to the end of the page, which `SacStep` takes for
samples of that message; where the page ends the program is killed (`ScanFaults`,
`SacFaults`, `AddFaults`, which end it in the stage `faulted`). `Delivered` is about
files whose messages are whole (`WellFormed` and `CleanTank` ask for that), while
`ConvertedOnce`, `ProgressFits` and `Finishes` hold of the others as well.

Each word of a SAC file is kept as the message and the sample it is, so that
`Delivered` and `ConvertedOnce` speak of the file and the tank and of nothing
in between.

### CommandLine

`proc_argv()` one word at a time. Words are strings, told apart as far as the
code does: the four options, the formats, the rest. Both buffers a word is copied
to may be too small: `Upper`, a parameter, is `toupper()` of as many letters as
`outformat` holds, and `Cut` as many of a path as `OutPath` holds (255,
`tbconvert.c:331`). Neither is an error in the code, and `ArgvUnderstood` says that
the path is the one given *as far as there is room for it*. `TakeNothing` is an option at the end of the line, whose value is
`argv[argc]`, a null pointer. `AsDescribed` is the grammar of the usage message.

### TraceList, MseedTrace, MseedFile, MseedConvert

Times and sample periods are whole ticks. A record fits a segment if their
rates are *tolerable*: `|1 - A/B| < 0.0001` in the code, which `Near` states for the
two periods as integers, one part in `RateParts`. (The code divides doubles; the
model is exact.) It is neither symmetric nor transitive, and a segment keeps the
rate it began with, so a chain of records may lead away from that rate as far as it
likes. That is what the properties allow for: `Continuous` says that neighbours
adjoin by the rate of one of the two (`Adjoins`) and that the rates of a segment are
linked by tolerable steps (`Linked`); `Healed` is about segments whose rates are
all tolerable to each other; `SamplesDated` lets a sample be off by what the rates
of the records before it differ by, sample for sample (`FarOff`).

A trace ID's doubly linked list of segments is a sequence in the order of the
links, and the data of a segment is the sequence of the records (messages) it
was built from. The disjuncts of `AddMsr` are the branches of `mstl3_addmsr()`:

| action | code |
| --- | --- |
| `AddId` | a new ID behind the closest smaller one, `tracelist.c:343-382` |
| `JoinLast`, `AddAfterAll`, `AddBeforeAll`, `JoinFirst` | the simple scenarios in the order they are tried, 440-515 |
| `JoinBefore`, `Heal`, `JoinAfter`, `AddBetween` | the search through the segments and what it found, 516-690 |
| `RefuseType`, `RefuseHeal` | the sample type does not fit, before anything was changed and in the middle of healing |

Whatever was changed, the segment is moved to its place (`Settled`, 692-752).
`RefuseHeal` returns before that, so `torn` remembers such calls. `stale`
remembers an ID whose `first` is a segment that was freed: the code looks after
`last` only, and `FirstAlive` shows that it does not happen, because the
scenario in which a record precedes the first segment is tried before the search
that heals. `MseedTrace` is `msproc_tlist_add()` message by message, with the
types it knows and the pointer it may leave in the record; it takes every message
for whole (what becomes of a cut-off one is `TankConvert`'s). `MseedFile` walks the
list (`BeginSegment`, `HeaderFails`, `EmptyRecord`, `NextSegment`), packs a
segment record by record (`PackRecord`, `PackFails`) and counts what the code
counts; how many integers fill a record is open between `FillAtLeast` and
`RecordRoom`, because it depends on their differences. `room` is what the disk
still takes: the handler logs a record it could not write and goes on.
`MseedConvert` is the program around them, from its command line to its exit;
the scan is one step in it.

### MseedRecord and the pure parts

`MseedRecord` packs one segment and reads the file back, in the order of the
code: header (`PackHeader`), words until the record is full or the samples are
through (`EncodeWord`, `DifferenceTooWide`), the record to the handler
(`PackSteim`, `PackFixed`), the next; then every record is read (`ReadHeader`,
`DecodeWord`, `DecodeFixed`, `DecodeEnds`, `ReadFails`). The buffer is not cleared: a
job says what the memory held (`memory`), and frames that were not begun keep
what an earlier record left there. A caller may hand over any segment (`JobOK`)
whose samples, when they are to be written as 16 bits, fit in them: the code
casts them without a look. The length of records is at most what libmseed takes
for one (`MostBytes`, 32768), so that the 16 bits for the number of samples and the
length of data never overflow (`pack.c:767`).

What is read back is claimed in two steps. `SamplesBack` says that a record is
`Refused` or gives exactly the samples of its place; `Refused` is the code's own
test, so `TimesBack` says besides which starts are refused, in terms of the
calendar: the year out of range, the time that means an error, the days that
make sense in either byte order. Records with an extra header whose time cannot be
read back are refused too (`Untimed`); which these are is subtler than a time that
is missing: a time a few microseconds into 1902 becomes the one that means an
error when it is cut to tenths of milliseconds, and the jobs of `Record` have one
(`Barely`) and one whose year is out of range (`Beyond`).

* `Calendar`: nanoseconds since 1970 to year, day and time of day and back, the
  year cycles of `gmtime64.c`, the tenths of milliseconds of version 2. Years,
  months and days are the real ones; the parts of a day are constants, so that
  a day has few units.
* `TimeString`: the forms of time as text and what is read from them.
* `SourceId`: `ms_nslc2sid()`, `ms_sid2nslc()`, channel codes short and long, the
  limits of the codes of version 2. A byte is a letter or half of a two-byte
  character, so that a copy of at most *n* bytes may cut a character.
* `SampleRate`: continued fractions (`ms_ratapprox()`), factor and multiplier.
* `Encodings`: the packings of Steim-1 and Steim-2 in the order they are tried,
  and how a word is told when it is read.
* `ExtraHeaders`, `Blockettes`: a JSON object as a function from paths to values,
  the flags and blockettes 200, 201, 300 to 395 and 500 made of it by
  `pack.c` and mapped back by `unpack.c`.

### Selection, Wanted, RecordScan, MseedReader

`Selection` is `selection.c`: words of a line, the conversion of four codes to
one pattern, the matcher of patterns as a function over positions, windows of
time, comments. What is longer than its array is cut without an error (`Kept`):
patterns when they are stored, though the search for an entry compares them whole
(`PatternRoom`, 100 bytes
less the namespace), each of four codes (`CodeRoom`, 20). A line is read in
pieces of `LineRoom` (198) bytes, each of which is taken for a line (`Stretches`).
Four cut codes always have room in a pattern (`RoomAssumption`). The namespace
`FDSN:`, five bytes that every pattern of codes has, is left out of the patterns and
their room; a date or a number counts for one byte of its line, so that a cut
never goes through one. `Wanted` states what a line *asks* for, from the comments of the code: a
request is a list of items (any byte, any bytes, one of some ranges ...), a window
and a version; it also says how the request is written down as words, which is
what `Selection` gets to read. What a request asks for is claimed of requests
that are not cut (`NoneCut`), in `SelectionFaithful` and in `RecordsReturned`: from a
cut one the code makes some other selection and says nothing.

`RecordScan` is the abstract specification of reading a file: no buffer, one
place that moves on from record to record. `MseedReader` is the code: the loop
of `ms3_readmsr_selection()` with shifting and filling the buffer (`Fill`,
`ReadFails`), the parser's results (`ReturnRecord`, `SkipUnselected`,
`DataUnreadable`, `SkipBytes`, `ParseError`, `Truncated`), the ends (`AtRangeEnd`,
`TooLittle`) and the caller that adds a record to its list (`AddRecord`,
`RefuseRecord`, `Finish`). The refinement `Scan` maps the stream position and the
records handed over. A header of version 2 that ends where the buffer ends is
parsed with what is behind it in memory (`parseutils.c:227`): `FollowChain` has
both outcomes there, and `RecordScan` allows it as `Spoil`, except for files as
this program writes them (`Regular`), for which the promise is kept in full.

## Runs

| run | properties | what it shows |
| --- | --- | --- |
| `ScanAny` | `TypeOK`, `SlotFree`, `EntriesApart`, `EntriesMatch`, `TracesListed`, `GoesForward`, `Terminates` | every file of six bytes with up to two headers of two channels anywhere, both orders, three counts, two widths, good and bad end times; messages cut off by the end of the file; the list, the tree and the counter of traces agree, also about channels that begin with a message that fails the check |
| `ScanGood` | `Catalogued` | files of up to three good messages with junk between them, the last possibly cut off, which may end the scan; the scan implements `Catalogue`, also when an allocation fails |
| `ScanStall` | `Terminates`, violated | a header with a count of -4 that passes the check takes the scan back, for ever |
| `SacAll` | `TypeOK`, `WritesInBuffer`, `WholePackets`, `CountsAgree`, `NoDuplicateKept`, `BogusEndsTrace`, `CleanIsEven` | up to three packets around a buffer of four words that grows by two: sound ones at ten start times, with fills that fit, that grow the buffer, that are cut, that are bogus; and odd ones with counts -7, -1, 0 and 2, so that the size wraps, two rates, end times off by a tick or more, unsupported types; the clock inside the range of the data |
| `SacNpts`, `SacEven`, `SacCovered` | one each, violated | see below |
| `Convert` | `ConvTypeOK`, `Delivered`, `ConvertedOnce`, `ProgressFits`, `Finishes` | the program, to SAC and to miniSEED, on files of up to three whole messages of two channels that carry on from each other, in any order in the file, and on garbled files of two headers, some cut off by the end of the file, with every failure of an allocation or a file in between |
| `ConvAttached` | `BufferDetached`, violated | see below |
| `Mseed` | `ListTypeOK`, `IdsSorted`, `SegmentsSorted`, `Healed`, `Conserved`, `Continuous`, `FirstAlive`, `ArgvUnderstood`, `FileFaithful`, `Counted`, `SamplesDated`, `MseedEnds` | the program to miniSEED, from every command line of up to three words and some longer ones to its exit, with words too long for their buffers, on tanks whose messages come in any order, close gaps, repeat and overlap, with sample types, rates and identifiers that do not go together, rates that are tolerated, and a disk that fills up |
| `Record` | `WithinBuffers`, `SamplesBack`, `TimesBack`, `HeaderBack`, `ExtrasBack` | what is packed is what is read, for differences on either side of every width, segments over several records, starts around leap days, ends of years and times with a meaning of their own, rates with and without blockette 100, identifiers, flags and extra headers |
| `Reread` | `RecordsReturned`, `ReadingEnds`, `SelectionFaithful` | files of up to three records of twelve kinds, torn ones and longer ones, byte ranges, failures of the disk and of the list; files of up to two lines of selections, some of them comments, some with patterns, codes or lines that are cut |

**Bounds.** A header is two bytes and a message at most four, so that six bytes
hold two messages apart, adjacent, nested and overlapping, and a jump can land
in, at and behind the end of the file. Lists start with one slot, so that they
double; `MaxSlots` bounds the doubling and is never reached with the headers
that fit. `Readings` are two counts in range, one out of range, and either
sanity. Buffers of four words that grow by two make packets of two words
straddle a reallocation and let a gap fall into each of the four classes of
the code. Two packets are enough for every comparison the loop makes, the third
shows what a dropped, bogus or skipped one leaves behind.

A file of eight bytes holds three messages of the program's runs, with end
times 2 to 5 and one or two samples: two channels interleaved, messages in and
against the order of time, a buffer of one word that has to grow. The garbled
files of that run have two headers of two samples, so that a scan that moved by
too little would read bytes twice, and two `Readings`, one that passes the
check and one that does not.

`Mseed`: an ID is one or two codes, so that one identifier is the beginning of
another; three or four messages at up to six start times with a period of two
ticks meet every branch of `mstl3_addmsr()` (a gap of less than half a period, of
exactly half, of more; a heal needs three messages, a heal that is refused
halfway needs two sample types; `Gapped` closes two gaps in any order). Records of
at most two samples make segments of several records; `Shared` runs out of disk
after three. `RateParts` is 3 instead of 10000, so that in the tank `Drifting`
periods of 3, 4 and 5 ticks are tolerable one to the next but not from the first
to the last. Of the words, one has more letters than a path may have and one more
than a format.

`Record`: a day of 8 seconds of 40 nanoseconds (5 tenths of a millisecond of 4
microseconds of 2 nanoseconds) keeps times inside TLC's integers while years and
days are real, from 1669 to 2262. `MaxFactor` 15 stands for 32767, so that rates
with and without exact factors are small numbers; `Precise` and `Different` are
the tolerances one in 21 and one in 50. Records of 128, 256 and 512 bytes have
one to seven frames behind the header. All patterns of eight differences on
either side of each of the eight widths of the encodings are packed, and samples
whose differences take 30 and 31 bits. `CutShort` holds the *n* for which
*n* / 10000.0 * 10000 is cut to *n* - 1. Samples keep to 30 bits because TLC's
integers, like the code's, have 32: an overflow of a difference is undefined in
the code and is not explored.

`Reread`: a cell is about 16 bytes, so a header of version 2 has three cells, a
record at least two, and the buffer thirteen. Files of three records are longer
than the buffer; every kind of record meets its end somewhere. Offsets in a path
have two digits. Selections are tried on the records of five identifiers, one of
them of two codes only, four spans and two versions. A pattern has room for 31
bytes, a code for 7 and a line for 38 in place of 99, 19 and 198; there are patterns,
codes and lines within each and beyond it.

**Deadlock** is checked in `Record` and `Reread`, where only `Stopped` lets the
system rest, so that every state of the packing, the parsing and the reading has
a next one. In the other runs it is not: the scan, the conversion and the
program end, and their liveness properties say the same and more.

**Fairness.** `FairSpec` of `TankScan` is weak fairness of `Next`: the function
runs in the only thread of the process and waits for nothing. It says nothing
about which disjunct is taken, so `Terminates` does not rest on an allocation
failing or not. `ConvFairSpec` of `TankConvert`, `WF_allvars(MseedNext)` in
`MCMseedConvert` and `WF_vars(ReaderNext)` in `MCMseedReader` say the same of the
program and of the reader. `ReadingEnds` holds for every file because each call
returns, skips bytes or comes nearer to the end of the file.

### Where the code and its comments part

* `ScanStall`: `swap.c:216` bounds the sample count from above only, although
  the comment at 239-245 promises protection from a bad one. In the run a header
  at offset 3 with a count of -4, and an end time that fits that count, passes the
  check. Its size is -2, which in `size_t` is larger than any limit, but the pointer
  is moved by it (`tbconvert.c:223`) before that is looked at: from 3 back to 1, from
  where two steps over junk lead to 3 again.
* `SacNpts`: "Samples in trace" (`sacproc.c:233`), but a fill that is cut at the
  end of the buffer is counted whole (191-193).
* `SacEven`: "Evenly spaced data" (`sacproc.c:299`), but a gap of *k* periods
  gets *k* fill samples where *k - 1* are missing (169).
* `ConvAttached`: "detach the sample buffer from the miniSEED record"
  (`msproc.c:150`), but a message of unknown type passes that by (129, 144) and
  the pointer into the mapping is freed when it was the last one (173).
* `SacCovered`: "This is a duplicated tracebuf" (`sacproc.c:200`), but only end
  times are compared.

Seen while modelling, without a run of their own. Scan and main: a message that
failed the check has made a node for its channel already (`tbconvert.c:192-213`,
against the comment in 232-235), which becomes an empty SAC file when no good
message of the channel follows; "Conversion complete!" and exit status 0 do not
depend on what the conversions returned (`tbconvert.c:82`, `97`, `102`, `115`).

Packing: an empty record of version 3 keeps the number of samples and the length
of data the memory held (`pack.c:228-256`). A difference wider than 30 bits inside
a record ends the segment (`packdata.c:705-709`), one between two records does
not. Blockette 1001 keeps the microseconds of the first record for those that
follow (`pack.c:785-801`). What an earlier record left in the frames of a buffer
stays in a last record of version 2. Blockettes: the wave bit of a 201
(`pack.c:1236-1243`), the texts of a 310 at the offsets of a 320 (1456-1460), switches
under other names than `extraheaders.c:538` gives them (1380 on), a calibration of
type "ABORT" that has no blockette (1337), durations and corrections that are cut
instead of rounded (1051), a publication version that is not packed (969).

Unpacking: in version 2 the byte order is guessed from year and day, and a year
whose low byte is 8 with day 1, 256 or 257 is read the wrong way round
(`mseedformat.h:645-652`); the time that stands for an error is a time as well. An
extra header that should have a time and has none makes a record that cannot be
read (`unpack.c:478`, 534, 794).

Texts and identifiers: what stands before a colon in an identifier is dropped
and spaces are removed. A channel that is one or two codes with empty ones
between marks is three characters long, so that it is written as three codes of
which some are marks (`B__` comes back as `B____`: `genutils.c:448`, `unpack.c:1470`).
An epoch of four digits is read as a year, one between
-1 and 0 loses its sign, and one in nanoseconds is read back as seconds.

Reading: a file that is cut in its last record is read with success
(`fileutils.c:523`), one whose records are all filtered out is "not SEED" (538);
unreadable data is passed by without selections but an error with them; the
search for the next header of version 2 goes over records of version 3
(`parseutils.c:264`); a path ending in `@` loses it; a file of selections in which
no line is understood selects everything; a glob `c-]` is an open range
(`selection.c:881`). A pattern for a channel is made one for the three codes of
the channel only if it is written with three bytes (`selection.c:356`,
`genutils.c:358`): `BH?` finds the channel `B_H_Z`, `[AB]H?` finds none, `*H*` those
with `H` in the middle, and `[A]` becomes `[_A_]`. `OneEach` says which patterns
mean the same code by code, and `Named` is about those.

## Proofs

The theorems hold for every value of the constants the `ASSUME`s allow, which
are those of the code: positive header size, a swapped span inside the header,
at least one slot to begin with, lists sorted by end time, sample counts with
the upper bound of `swap.c:216` (`Packet` in `SacTrace`) and no lower one, a
buffer that grows by more than any message brings (`GrowAssumption`: 204800 words
against 4096 bytes).

`TankScanProofs`

* `TypeCorrect`, `SlotsSuffice`: `TypeOK /\ SlotFree` is inductive. `TypeOK`
  holds that a scanning pointer is in the file; `SlotFree` needs the types.
  Both hold with negative counts too.
* `AllListed`: `TracesListed` is inductive with the types. That a list in
  ascending order and as long as the tree holds every node is a counting
  argument (`AscendingIsAll`, by the pigeonhole theorem).
* `AlwaysForward`, `CountedApart`, `CountedMatch`: for files without negative
  counts. `NoNegative` says so of the tank at hand, and is kept because a swap
  in vain reads as one of `Readings`. Then every message is at least a header
  long (`SizePositiveAt`), so the pointer moves on; what is counted ends at the
  pointer at the latest, so the new entry lies apart from all others; and since
  a check changes nothing before the pointer (`CheckedPart`), what is counted
  stays as it was. `EntriesMatch` needs `EntriesApart`, which needs `NoNegative`.
  Sorting permutes each list (`SortMoves`), which all of these survive.

* `ScanCatalogues`: `TankScan` implements `Catalogue` for files of any length in
  which the messages are good and only junk stands between them (`GoodTanks`,
  which is what the run `ScanGood` takes its files from). The invariant says that
  every message from the pointer on is as it was in the file (`GoodInv`): good
  messages do not overlap, so that swapping one in place leaves the rest alone,
  and the first one at or after the pointer is the next to be filed. Then `Track`
  and `SlotsFail` are a step of the catalogue that files a message, `Slide` and
  `NodeFails` change nothing in it, and `SortAll` closes it.

`SacTraceProofs`

* `TypeCorrect`; `NeverOverruns`: the fill stops at the capacity, and a packet
  either fits strictly or is split in two copies each cut at the capacity.
* `StoredWhole`: after a growth the rest of the packet always fits, because no
  packet is longer than `Grow`; the strengthening says that stored packets end
  before `Len(out)` and that only packets before the current one are stored.
* `CountsAreWords`: `nsamp` follows the words except for a cut fill.
* `NeverTwice`: `endtime` is the end of the last stored packet, and a packet
  that passes both tests ends at least one of its periods after it.
* `BogusIsFinal`: what makes a gap bogus (`endtime`, `nsamp`, the capacity) is
  left as it was when the packet is dropped, and a later packet at that rate has
  a gap at least one period wider, so it is bogus too. That needs a size that did
  not wrap: without negative counts `nsamp` is not below zero.
* `CleanStaysEven`: for packets that carry on from each other, copies aside, the
  invariant is that `endtime` and one period is where the series ends
  (`NextTime`); then a packet that carries on is neither a gap nor a duplicate, a
  copy is a duplicate, and what is appended begins at its own time
  (`SeriesGoesOn`).

`TankConvertProofs`

* `ProgressIsRight`: what the scan proofs give here is that the list is in
  ascending order when it is handed over (`SortAll`), so that no trace is gone
  through twice. The invariant `DutyInv` adds that `CompDuty` and the number of
  lost traces make up the traces gone through, with the one that is being
  converted counted when `SacTrace` counts it and not again by `main()`.
* `OnlyOnce`: the scan proofs give the entries of the lists: they lie apart in
  the file and are headers of their channel that pass the check (`FiledInv`, with
  `SameMessages`: a check turns no junk into a message). The invariant `SacInv`
  says of the conversion that is running that the words in its buffer are samples
  of packets before the one the loop is at, each once, and fill (`WordsOf`): a
  packet that is stored, dropped or starts the buffer anew adds samples of its own
  only. So every file holds samples of entries of its channel, each once
  (`FileOf`), and bytes of two samples differ: within an entry by their number
  (`BytesDiffer`), between entries because these lie apart (`BytesInside`). It
  assumes what `TankScan` needs no assumption for: no negative sample count, and a
  buffer that is counted in whole words.
* `AllDelivered`: the way from the file to the series, for files of good messages
  that are whole and whose channels have no gaps. No message is cut off, so the
  program cannot be killed on the way. It goes in four steps, one invariant each.
  `CleanInv`: what the scan read of a message is what the file holds, and the
  messages of a channel are those in its list and those the pointer has not
  come to, so that none is missing when the scan is over. Then the sorted list is
  the channel in order of time: of two entries the earlier one is over before
  the later one begins (`OneByOne`), and since the messages join up, each begins
  one period after the one before (`Consecutive`, `Ends`). `EvenInv`: so no
  packet is dropped and none follows a gap, whether it fits the buffer or makes
  it grow, and the words stored are those of all packets before the one the
  loop is at, in order. To libmseed the list goes as it is: ascending places as
  many as there are leave none out (`FedInOrder`, which is why the list handed
  over is defined by its places). `DeliveredInv` carries each of this through the
  traces that follow (`ThroughWith`).
* `ConvTypes`: `TypedInv` says beside the types that the loop stays within the
  list of traces and that what is written or lost are channels of the tree.

`MseedConvertProofs`

* `CommandUnderstood`: for command lines of any length, with paths cut to what
  `OutPath` holds. The loop has read
  pairs of an option and its value so far, and `OutPath` and `outformat` are the
  values of the last `-o` and the last `-f` among them (`CommandInv`,
  `LastIsGiven`). Assumed is that a word is made empty by `toupper()` or by being cut
  only if it was.
* `FileIsFaithful`: `mstl3_writemseed()` by itself, on any list it may be handed
  (`WriteSpec`): any trace IDs with at least one segment, any number of samples,
  any room on the disk. `InOrder` is `FileFaithful` with the place of the packing
  beside it: what is in the file is of segments before the current one or of its
  samples so far. `UpToDate` is what makes that inductive: a disk that is full
  stays full, so as long as records are appended nothing was lost, and the last
  one in the file ends where the packing is. `Finished` carries the segments that
  are through to the end of the list.
* `CountIsRight`: `CountInv` counts two ways. With nothing broken, the total and
  the records of the segment being packed are the records handed over, lost ones
  included. With nothing lost, the total and the number of broken segments are the
  records in the file of segments that are through and whole (`Through`); a segment
  that is left either brings its own records to that set (`LeftCounted`) or breaks
  and takes one off.
* `SamplesAreDated`: takes of the trace list what `TraceListProofs` proves of it
  (`ListTypeOK`, `Continuous`). A record is dated by the place of its first sample
  in the segment (`Dated`), so that what it says of a sample does not depend on
  the record (`DateIs`). What is left is how far the records of a segment drift
  from their places: each adds what the tolerance of times lets pass
  (`NextWithin`) and, for each of its samples, what its rate and that of the segment
  differ by, and
  the places are counted sample by sample (`OneFurther`), since the prover cannot
  take a sum over a sequence apart.

`TraceListProofs`

* About `mstl3_addmsr()` called with any records in any order (`ListSpec`), for
  identifiers and types of any number. The invariant `ListInv` says that every
  segment is good (`Good`: its records are of its identifier and type, each
  once, each adjoins the one before by the rate of one of the two, and the rates
  are linked by tolerable steps), that no record is in two
  segments, that a record is in none exactly when it was refused before anything
  was changed, that the segments of an ID are in order and `earliest` and
  `latest` their extent, and that the identifiers are sorted.
* `ListIsSorted`: the order of identifiers is one of strings with an end mark,
  and the closest smaller one is the greatest that is smaller
  (`GreaterIsAsClose`), so that a new ID goes in the right place.
* `SegmentsInOrder`: moving one segment of a list that is in order without it
  puts the list in order (`SettledOrder`); each way to store a record leaves such
  a list (`Thinned`) and extends the extent by the record only (`Extended`).
* `RecordsConserved`, `SegmentsContinuous`, `ListTypes`: what `ListInv` says of
  one segment holds of a record put at either end and of two segments joined by
  one (`ToEndIs`, `ToStartIs`, `JoinedIs`).
* `GapsAreHealed`: `SeparateLists` says that of the segments of an ID no two are
  close, as long as no heal has broken off. A record that begins a segment of its
  own is close to none, since the search found none; one that is joined to a
  segment changes an end of it, and a segment that is close to the new end was
  close to the record, so that the search found it as well and the two are
  healed: the one that ends before the record is always the first of the two and
  the one that begins after it the second. Sample types play no part: a heal that
  is refused for them is a heal that has broken off.
* `FirstStaysAlive`: the segments that a heal joins are two, and the one that is
  freed is not the first (`HealedAreTwo`).

`CalendarProofs`

* `TimeComesBack`: `ms_time2nstime()` gives back every time that
  `ms_nstime2time()` took apart, or an error if the year is out of its range. A
  day is counted once by `gmtime64.c`, down and up in cycles of 400 years,
  centuries, leap cycles and years, and once by `genutils.c`, by the days of the
  years up to it (`DaysTo`); both are led to `DaysTo`, which grows by the length of
  a year from each year to the next and by the same amount over each cycle. Below
  the day, the proof is of quotients and remainders with divisors that are
  constants, in the order the code takes them.
* `TenthsComeBack`: a time written in tenths of milliseconds comes back as
  `Floored`, the greatest whole number of tenths that is not after it, also where
  the number is negative.

`MseedRecordProofs`

* About any segment a caller may hand over (`JobOK`): of any length, with any
  samples, start, rate, identifier and extra headers, in either version, in each
  encoding and any length of record, whatever the memory held.
* `TypeHolds`, `BuffersHold`: the invariant `RecordInv` adds to the types that the
  header in the buffer is the one that was packed, but for its time and its count
  (`MadeHeader`), so that the room behind it is the same for every record; that as
  many samples are read as are encoded or looked ahead at; and that the words are
  no more than the frames hold. A header has a length because its blockettes
  have (`LengthIsNat`), which needs that a sum of natural numbers is one and what a
  list of lists holds when it is flattened (`TotalNat`, `Flattened`).
* `SamplesHold`: what has to be carried along is what each word *says*. `Spells`
  relates words to the differences of a record by a count after each; a word made
  of differences that fit is taken for the packing it was made with
  (`WordTaken`) and gives them back (`FieldBack`, `WordEncodes`), so `EncodeWord`
  spells one word more (`SpellsMore`), and the differences ahead are those of the
  samples that follow (`RefilledDeltas`). A record that is handed on spells the
  samples of its place (`RecordHolds`): the words stand in front of what an
  earlier record left in the buffer, and no frame that has a word of differences
  is taken for the zeros at the end (`DataWordsReach`). `SamplesInv` says this of
  every record of the file, that they follow one another (`Before`), and that
  what is decoded is the first samples of the record (`GotOK`), to which a word
  adds the next (`IntegratedIs`). So a decoder never ends short of the count in
  the header, and packing that breaks off does so for one of the three reasons
  that `Unencodable` names (`DifferenceTooWideBack`).
* `TimesHold`: `TimesInv` adds to `SamplesInv` that the header in the buffer is
  dated by the samples before it (`BufferDated`), each record of the file by its
  first one (`FileDated`), and that what was read is what the header says
  (`HeadRead`, `BackRead`). What is left is arithmetic (`StartIs`, `LateIs`): what
  version 2 cuts from a start is less than a tenth of a millisecond, blockette
  1001 has the microseconds of that for the first record, and keeps them for
  the others. That a record is not refused (`NotRefused`) needs every
  blockette that is written to have a time that is read, whichever extra header it
  was made of (`ExtrasAre`, `WrittenTimely`), that none is lost on the chain from
  one to the next (`ChainedIs`), that the header is not taken for one in the other
  byte order (`NativeIs`), and that the sum of a start and its correction never is
  the time that means an error (`NoErrorIs`).
* `HeaderHolds`: `TimesInv` says which header each record was read from, so what
  is left is about one header (`IdentifierBack`, `RateIs`). An identifier that is
  split has five marks, of which the search finds the first three (`MarksAre`); a
  code between two of them is whole characters, so that its field in the header
  holds all of it and cleaning the field leaves nothing out (`CodeReadBack`); the
  channel is three codes with the last two marks between them (`CodesOfThree`);
  and the parts with their marks are the identifier again (`CodesJoin`). The
  rate needs nothing of how its factors are found: what they express is compared
  with the rate when the header is written, and blockette 100 is there when they
  are too far apart.

`MseedReaderProofs`

* `BufferIsFile`, `RecordsStand`: for every file, range, buffer length and
  selection, what is in the buffer is the part of the file from `streampos -
  readoffset` on, and the records handed over are those that stand in the file
  at the places they are given with, in the order of the file and none twice.
  The invariant ties the read offset, the stream position and the place of the
  file descriptor together (`Buffered`). Shifting keeps what is unread
  (`ShiftKeeps`), filling appends the file from the descriptor on (`FillKeeps`),
  and the reader never goes on by more than the buffer holds, because a length
  that is longer than the buffer asks for more data instead (`ParsedLength`).
  Assumed of the constants is what `ReaderAssumption` and `InputsAssumption`
  say: the order of the lengths in the code, cells that state a length, offsets
  that are numbers.
* `GlobIsRight`: `ms_globmatch()` finds what a pattern means, for every pattern
  and every string. The matcher is a recursive function of two places, each
  value of which rests on places further on in the pattern only (`MatchAgrees`), so that
  there is one that obeys it (`MatchExists`, by the least place for which there
  is none; this is where an induction is needed, and it is one over a set of
  numbers). A set in brackets is taken apart by where its ranges begin: a byte
  after a hyphen begins none but for the one the code goes over again (`SetIs`,
  `InSetIs`), and the bracket that is found is the one that closes it
  (`SetFound`). Then one item at a time: where it stands in the pattern, the pattern
  matches from it on if the item stands for some bytes and the rest matches
  behind them (`ItemMatches`, `ItemStep`), which is how `Fits` reaches the end.
* `SelectionsHold`: the invariant `SelectionInv` says that the list selects what
  the lines read so far ask for, and is empty if they ask for nothing. It is
  kept because a line is read as it is meant: its words are recognised for what
  they are (`SourceLine`, `CodesLine`), four codes become the pattern of
  identifiers (`CodesWritten`), and `ms3_addselect()` adds exactly what pattern,
  version and window find to what was selected, in a new entry or one there
  was (`AddSelects`, `LineReads`). That a record whose codes fit is selected as an
  identifier (`NamedFits`) takes both apart at their marks: a string fits if it
  can be cut into pieces for the items (`FitsCuts`), and pieces that fit are put
  together (`FitsConcat`). Assumed is that the lines are requests that can be
  written so (`SelectionAssumption`): sets without a closing bracket, with a
  hyphen at their beginning only, a first word that is no comment, an end of time
  behind a start only, a version
  behind both if the pattern is one of identifiers, and that a record's start is
  not behind its end. The claim is for files in which nothing is cut (`NoneCut`):
  lines of up to 198 bytes, patterns below 100, codes below 20. A line that fits
  is read as one (`LineFits`). Bytes are all those of `Ascending`, in any order of
  values.

Only model-checked, and why:

* `Terminates`, `Finishes`, `MseedEnds`, `ReadingEnds`: liveness.
* `RecordsReturned`: its abstract specification allows one step for many of the
  reader's, with lengths found by following the blockettes of a header and
  headers of version 2 in what is buffered, which at the edge of the buffer is not
  what the file has. That every such step is allowed is a proof as long as those
  above and has not been done.
* `ExtrasBack`: each kind of blockette has switches and texts of its own, times as
  text are written and read character by character, and a text is cleaned by a
  recursion over its data.

No module has a recursive operator: what recurs is a function, a fold or a
table, also where nothing is proved of it.

## Not modelled

Files with negative sample counts are `TankScan`'s only: `TankConvert` assumes
there are none. Reading past the end of the mapping when a header stands at its
very end is outside the model: offsets are taken where a header fits. What the
zeros behind the file make of a cut-off message in a miniSEED file is not
modelled either: the trace list's messages are whole.

Some properties say less than their hazards suggest. `EntriesMatch` looks at what
a swap does to headers at or after the position (`InTheWay`); that a counted message
ends before it is `EntriesApart` and `GoesForward`. `CleanIsEven` is about traces
without gaps; the count of fill samples is what `SacEven` finds wrong. `ExtrasBack`
leaves out what is known not to come back: the texts of blockette 310 and the keys
that only one side knows, such as the signs of steps. `RecordsReturned` allows a
sound record at the end of the buffer to be refused (`Spoil`), except in files as
this program writes them.

Of libmseed: allocations that fail inside `mstl3_addmsr()`; record lists,
printing, resizing and conversion of samples in a trace list; the limit of 65535
bytes for extra headers and the syntax of JSON (`parson.c` is third-party code);
URLs, standard input and the older form of negative file positions; reads that
return less than the file has; samples that are text or floating point beyond
their size; checksums, which are not looked at unless asked for; repacking;
decoding of the old encodings, which nothing here writes; logging. An offset of
data that leaves no room for text makes the packing of text go on for ever
(`pack.c:745`), which no job of `Record` has.

Wording, station names and orientation fields, output paths and the build files
have no behaviour a property is about.

## Plan

Done are the scan, both converters, the program, the trace list, the packing and
reading of records, and the reading of files with selections, with theorems for
each. What is left, in order of worth: that extra headers come back, as a theorem;
allocation failures in `mstl3_addmsr()`; record lists.
