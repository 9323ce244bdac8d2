# A verification project for the network-programming labs

The repository holds the exercises of a network programming course: two larger
assignments (HW1, an IRC server; HW2, a DNS server) and a dozen labs, each a
small client or server. The programs share no process and no state. What they
share is a style - one `select` or `poll` loop, a table of clients, a handful of
counters that several functions adjust - and the faults that style invites:
a bound that does not cover a new entry, a slot emptied while a loop still walks
it, a counter lowered on one way out and not on the other.

The models follow that structure: one module per program, and where two programs
of the repository speak to each other, one module that holds both ends and the
network between them.

- [Inventory](#inventory)
- [Modules](#modules): how each corresponds to its code
- [Runs](#runs): what TLC checks, the bounds and the fairness
- [Proofs](#proofs): what TLAPS proves and along which argument
- [Where the code and its documentation disagree](#where-the-code-and-its-documentation-disagree)
- [What is not modelled](#what-is-not-modelled)
- [Plan](#plan)

## Inventory

### IRC server - `HW1/src/server.cpp`, `server.h`, the socket wrappers

*State.* `listenfd`, `allset`/`rset`, `nready`, `maxfd`, `maxconn`; the table
`client[FD_SETSIZE]` of pointers to `UserInfo` (descriptor, `chanID`, nickname,
`isLogin`); `channels[MAXCHAN]` with name, topic and `nusers`; `kusers`.

*Operations.* `start` repeats `MySelect`, `IncommingReq`, `ConnectedReq`.
`IncommingReq` accepts one connection, puts it in the lowest free slot, calls
`Connection` - which *blocks* until it has read two lines and runs the commands
in them - and only then raises `maxfd` and `maxconn`. `ConnectedReq` walks the
table and reads once from every descriptor that `select` reported; `ParseCommand`
runs NICK, USER, USERS, JOIN, LIST, TOPIC, PING, NAMES, PART, PRIVMSG or QUIT;
`CloseConnection` empties the slot.

*Interactions.* TCP with any client. A reply is a `dprintf` on the descriptor of
the sender or of each member of a channel, so one client's command writes to
connections that other clients may have closed.

*Hard.* The table changes between the pieces of a round (accept, close, QUIT)
while `nready` carries over from one piece to the next; the handshake runs with
bounds that do not cover its own slot; a hang-up takes a different way out than
QUIT; a read may return two lines; writes to a reset connection raise SIGPIPE.

*Correct when.* Table, select set and open descriptors agree at every step; the
loop bounds cover every client; nicknames and channel names stay unique although
lookups stop at the first match; a round serves everything reported and never
blocks; counters do not drift below what is there; abandoned connections are
reclaimed and lines are read.

### DNS server - `HW2/server.cpp`, `server.h`, `header.h`

*State.* `zones`: per name its records by type; one receive buffer, one
`cliaddr`; the descriptors that forwarding opens.

*Operations.* The constructor reads the configuration and the zone files line by
line, carrying `cur_name` along. `start` receives a datagram, looks for the zone
(`start_from_root`), and either builds the answer, authority and additional
sections (`get_answer`, `get_authority`, `get_additional`), or answers a name
that starts with four numbers with that address, or forwards the query to
another server and waits for the reply.

*Interactions.* UDP with clients and with the other server.

*Hard.* Answering and forwarding share buffer and address; forwarding blocks
without a timeout and never closes its socket; counts and sections are written in
different orders; a target outside the zones is looked up without a test.

*Correct when.* The loaded zones are those of the files; each reply holds, as its
header divides it, exactly what the files say; replies go to who asked; foreign
names and only they are forwarded; each query is answered unless the program
stopped for one of the reasons the code has.

### Robust UDP transfer - `lab8/robust_udpcli.cpp`, `robust_udpsrv.cpp`

*State.* Client process: the current file, `send_idx_buffer` (which fragments are
acknowledged), `ack_num`, `fin_file`. Server: per file a map of fragments
(`output_buf`), `written`, and its disk.

*Operations.* The client drains its socket, opens a file, sends passes over the
fragments not acknowledged with a wait of 150 ms after each, then sends
`ENDOFFILE<name>` and goes on. The server stores a fragment and answers `ACK<n>`
five times - the file's name is not in it -, writes a file on its ENDOFFILE,
and answers anything of a written file with `ACKEF<name>`.

*Interactions.* UDP over a link that loses, delays, repeats and reorders. Fifteen
client processes run with files and sockets of their own.

*Hard.* An acknowledgement can outlive the file it belongs to; passes repeat what
is in flight; ENDOFFILE is not retried; late fragments reach a closed file; the
server keeps its state for ever, so a client that is killed and run again, or run
twice, meets what its earlier runs left there; some files end the client.

*Correct when.* A file on disk is whole, is written once and stays; `ack_num`
counts what the server has; a run finishes over a lossy link.

### Raw broadcast transfer - `lab10/lab10cli.cpp`, `lab10srv.cpp`

*State.* Client: the current file and fragment. Server: *one* `output_buf` keyed
by fragment number alone, its receive buffer (never cleared), its disk; the
kernel's socket buffer of 20 KiB.

*Operations.* The client broadcasts all fragments of a file and then its
ENDOFFILE, sleeping now and then; the server checks length, stores, and writes
all it holds under the name in ENDOFFILE. There are no answers.

*Hard.* Which file a fragment belongs to follows from its place in the stream; a
full socket buffer drops datagrams, an ENDOFFILE among them; a text that fills
its padding leaves without its terminating zero.

*Correct when.* No fragment is written twice or under two files; a file lacks
exactly what was dropped of it while the ENDOFFILEs before it came through; all
files arrive if nothing is dropped.

### Web checker - `lab07/webcrawler_question3.cpp`

*State.* The list of requests under a mutex and condition variable, a counter of
requests, each worker's job and status line, and the one static result that
`gethostbyname2` returns to every thread.

*Operations.* The main thread adds requests and calls `notify_one` *after*
unlocking; two detached workers wait, take, resolve, check the address, connect,
try twice, and report.

*Hard.* A wakeup between unlock and notify, spurious wakeups, two workers and one
list, one resolver result for two threads, servers that never answer.

*Correct when.* No wakeup is lost; requests are taken in order, each by one
worker; each request ends unless a silent server holds a worker.

### Chat server - `lab05/lab05-1.cpp`, `header.h`

*State.* `client[1024]`, the `pollfd` table with the listening socket in entry 0;
`maxi`, `nready`; per entry a name, `nameStr`; `howManyUsers`; two arrays that
all clients share and nothing clears, `buf` and `newname`.

*Operations.* `main` polls, accepts one connection into the lowest free entry
(WELCOME to it, ARRIVE to the others), then reads once from every entry with an
event: a line with `/` goes to `command_prompt` (`/name`, `/who`, anything
else), other text to everybody else. End of file frees the entry, sends LEAVE
and lowers `howManyUsers`; ECONNRESET only frees the entry; any other error ends
the server. SIGPIPE is caught, so writes never end it.

*Interactions.* TCP with any client; each line of one client writes to all.

*Hard.* A client that does not read blocks the one process in `dprintf`; the
table is filled and emptied in a round whose end is a count; there
are two ways out that do different things, and a write decides which of them a
lost client takes; names are copied with lengths from `strlen` between arrays
that keep the end of an earlier line.

*Correct when.* Everybody there hears of each arrival and departure; the count is
that of the clients; a name is what was asked for; a round serves everything
reported and does not block; everybody there is polled.

### Forking server - `lab04/lab04-1.cpp`, `header.h`

*State.* `connfd`; the server's and each child's descriptors; the children that
ended and were not waited for; a SIGCHLD pending.

*Operations.* `main` accepts, forks and closes its own copy of the connection;
the child makes the connection its standard input, output and error, closes the
listening socket and becomes the program given on the command line. `sighandler`
calls `waitpid` until it fails.

*Interactions.* Signals between the children and the server, descriptors that
are inherited, TCP with any client.

*Hard.* The handler interrupts `main` anywhere; signals are merged; `waitpid`
*blocks* while any child lives, and with it the server, its copy of the connection
just accepted perhaps still open.

*Correct when.* Each program has its own connection and nothing else; every child
is reaped; the client of a program that ended sees the end of the connection.

### Sudoku client - `lab9/lab9.cpp`

*State.* One `board` that all activations of `_solver` share; `ans`, the cells
that were empty.

*Operations.* `str_cli` asks the puzzle server for its board, calls `_solver`,
ignores what it returns, and enters the value of each cell of `ans`. `_solver`
finds the first empty cell and tries the digits that `isSafe` admits, each with an
activation of its own. Afterwards the parent process forwards lines of its user.

*Hard.* What one activation leaves on the board decides what all later ones find;
boxes are located by remainders; a puzzle may have no solution.

*Correct when.* The search ends, finds a solution if there is one, and takes
everything back if there is none; the server's board is then right.

### The other programs

| part | state and operations | correct when |
|---|---|---|
| Throughput server, `lab06` | a command client and a sink, `bytes_counter`; `/reset`, `/ping`, `/report`, `/clients` | the counter is what was received since the reset |
| Oracles, `lab07/oracle*.c` | a secret made from a seed in one static buffer | the comparison is with a secret of its own |
| Unpacker, `lab02` | one pass over an archive | offsets stay inside the file |
| Clients of lab03 | count and report octets | - |
| `example`, `template`, `lab*/example`, `lab01` | teaching programs of a page | - |

## Modules

Definitions keep the names of the code. Definitions called `Mutant...` are
plausible faults of the definition beside them; no specification uses them, they
are there to show that each property can fail.

### IrcServer (MCIrcServer)

`client`, `channels`, `kusers`, `allset`, `rset`, `nready`, `maxfd`, `maxconn`
are the program's own. `pc` says where the loop of `start` is, `cur` whose
handshake is being read, `scan` which slots `ConnectedReq` is done with. The
environment is `backlog` (connections the kernel completed), `peer` (the state of
each connection: up, closed, reset, reset already reported) and `unread` (lines
sent and not read). One action per piece of the round: `MySelect`,
`IncommingReq`, `FirstLine`, `SecondLine` and their ends of file,
`HandshakeError`, `Serve`, `ServeQuit`, `ServeEof`, `ServeError`; one operator
per command.

A line is the sequence of its words; which line a client had sent is chosen when
it is read. Two unread lines are glued the way `Parser` glues them (it splits at
blanks only). Words that the first line's command leaves in the list are put
before the second line's, as `Connection` does. A reply is only the descriptor it
is written to, because what can change the state is whether that write meets a
reset (`Deliver`): the second such write ends the process by SIGPIPE. The ways
the process dies are values of `fate`: `exited` (`err_sys`), `sigpipe`,
`nullNick` and `nullJoin` (the two loops that lack the null check), `overflow`
(a channel beyond `MAXCHAN`).

The text of replies, the real, host and user names (only echoed) and `setup`'s
socket options are left out. The overflow of `channels[]` ends the model although
the program may go on with damaged memory: nothing is claimed after it.

### UdpTransfer, FileTransfer (MCUdpTransfer)

Four bags of datagrams in flight (`data`, `ends`, `acks`, `ackefs`), the client
`dg_cli` as a small program counter machine (`drain`, `send`, `await`, `flush`,
`end`), the server `dg_echo` as two actions, and `Lose`. `acked` is the set of
entries of `send_idx_buffer` that are -1. An ACK number beyond the current file
indexes past that array; the model lets what lies there be either value, so
`ack_num` may or may not go up.

`Timely` separates two worlds. TRUE: an answer never takes longer than the
client's timeout, so a timeout means that nothing is in flight. FALSE: any delay.
The labs' promise holds in the first and not in the second.

`Restart` starts the client again, killed in the middle of a file or ended, as
often as one likes; the server goes on as it was. Nothing of the earlier run is in
flight then (its answers would go to a port that is closed). `TearFile` is a file
of several words of which a later one is no multiple of 900 octets: `substr` is
asked for a place beyond that word's end, throws, and ends the process.

`FileTransfer` is the abstract specification: a file appears at the receiver at
most once, whole, and stays. `UdpTransfer` implements it, with `copy` mapped to
the server's `disk`, when answers are timely. RawBroadcast does not implement it
(a drop leaves a file with a hole), which is why it has the weaker properties
below.

### RawBroadcast (MCRawBroadcast)

`queue` is the server's socket buffer, `output_buf` its one map of fragments,
`longest` the longest datagram its receive buffer has held (what decides how an
unterminated text is read on), `lost` a history of what the socket dropped or the
server discarded. The broadcast link itself keeps the order and loses nothing:
both programs of the lab are on one Docker network (`docker-compose.yml`), and
the code's own measure against loss, the sleeps, is about the socket buffer.
The sleeps are not modelled; the client may be arbitrarily fast. `TearFile` is as
in UdpTransfer: the two clients share the code that cuts a file.

### WebChecker

What is done while holding the mutex is one step; `Notify` is a step of its own
because `add_job` unlocks first. `host` is one variable for all workers: it is
the static result of `gethostbyname2`, and `Check` and `Connect` read it at two
different moments. A silent server leaves its worker in `talk` for ever.

### DnsServer (MCDnsServer)

The constructor (`LoadLine`, `NextZone`) and the serving loop (`Answer`,
`Forward`, `Relay`, `RecvEmpty`, `RecvRoot`). A name is a sequence of labels;
a packet is its counts and its records in the order they are written, with the
counts in the order in which a reader finds them, so that the two swaps of
nscount and arcount (in the code and in `struct header`) appear as they are. Each
record keeps whether its RDLENGTH is the length of what follows. Names of one
character are `OneChar`, as in the code, which takes them for `@`.
A node (`Zone`) has one list of records per type, in the order of their lines, the
SOA's holding the last one only, and a flag for what a CNAME does to `_SOA._length`.
`str_type` holds the records of four types in one list, of which every use takes
one type's: its order between types is nowhere seen.
`zones.end()` used as a node ends the model. The octets of records, TTLs, classes
and the length of the buffer are left out.

### ChatServer (MCChatServer)

The entries above 0 are `Slot`; `peer` says what has become of the connection of
each (`none` is descriptor -1), `revents` which of them `poll` reported, `scan`
how far the loop is. `MyPoll`, `AcceptClient`, then per entry one of `ReadLine`,
`ReadEof`, `ReadReset`, `ReadError`, are the pieces of a round; `TooMany` is the
accept that fails or finds no entry.

Lines, commands and the two arrays are sequences of characters, `Nul` being the
octet 0, so that `strncmp`, `strlen`, `strncpy` and the newline that is cut off are
what the code does and residue of an earlier line stays visible. Which command a
line is, is decided on all of `buf` (`IsName`, `IsWho`): a line that ends inside a
command is completed by what an earlier one left, and may rename a client that
asked for nothing; `NameBegins` promises something only of a line whose command and
argument came whole (`Argument`). `/name` with `strlen(buf) - 6` below zero, or a name that does not
end inside `newname`, ends the model in `overflow`: nothing is claimed after it.
Several lines may be read at once. A line without its newline ends what its
client sends until it is read; the halves of one line in two reads are
two lines here, as they are for the code, wherever the line is cut.

`stalled` are the clients that stopped reading, so that a write to them blocks: a
step that writes to one of them (`Room`) is taken when there is room again, and
until then the process does nothing.

A write to a connection in error takes the error with it (`Tell`), so the next
read returns 0 instead of failing: whether a lost client is announced
depends on whether something was said in between. `asked`, `view`, `dropped`
and `resets` are histories for the properties and change nothing.

### ForkServer

A child has the name of its connection. `pc` and `connfd` are `main`'s (`connfd`
keeps its number after the close, as in the code), `handling`
says that it is inside `sighandler`, `pending` that a SIGCHLD waits: a second one
changes nothing. `fds` and `listeners` say which process has a descriptor of
which connection and of the listening socket. `Deliver` may come between any two
steps of `main`; while `handling`, only `Reap` and `Return` are the server's.
`Exec` stands for the three `dup2`, the `close` and `execvp` together, since
nobody else sees what comes between them; one that fails is `Exit`.

### Sudoku (MCSudoku)

An activation of `_solver` that found a cell is a record on `stack`: the cell and
the loop variable. `Find`, `Place`, `Pass`, `Exhausted`, `Succeed`, `Backtrack`
are the pieces of its body, between a call and a return; `result` is what the
returning activation hands over. The 9 and the 3 of the code are `N` and `B`,
independent of each other. `SameUnit`, `Solution` and `Solvable` define the puzzle
without reference to the search. The puzzle server is external: its board, and
that it takes a digit for a cell.

## Runs

| run | module | shows |
|---|---|---|
| irc_open | MCIrcServer | any line at any time: tables, select sets and descriptors agree, names are unique |
| irc_polite | MCIrcServer | well-behaved handshakes: counters, complete rounds that do not block, reclaiming and reading |
| irc_join | MCIrcServer | *violated*: JOIN never fails |
| udp_timely | MCUdpTransfer | true acknowledgements, refinement of FileTransfer (once, whole, for good), termination, with clients run again |
| udp_late | MCUdpTransfer | any delay: a file on disk is never touched again |
| udp_stale | MCUdpTransfer | *violated*: what is written is the file |
| raw_link | MCRawBroadcast | a small socket buffer: what a file may lack; arrival without drops |
| web_queue | WebChecker | no lost wakeup, order, every request ends |
| chat_serve | MCChatServer | announcements, the count, names, complete rounds, everybody attended to |
| dns_serve | MCDnsServer | zones, answers, addressees, forwarding, an answer to each query |
| fork_reap | ForkServer | programs keep to their connection, every child is reaped, clients are released |
| sudoku_solve | MCSudoku | the search's verdict, the board entered, the end |

### Bounds

- IRC: two client descriptors (`FdLimit` 6) over two slots, three connections per
  behaviour, five or six lines, up to two lines in one read. Two clients give
  every interaction of a sender with another member, of an empty slot below a
  full one, and of two ready descriptors in a round; the third connection reuses
  a descriptor and a slot. `MaxChan` 2, and 1 in the violation, reaches the
  overflow. In `irc_open` clients send anything, commands before the handshake
  included; `irc_polite` restricts them to NICK, USER and then JOIN, PART and
  QUIT, since a QUIT or a missing USER during the handshake makes `CountsCover`
  false (the counter falls without a login).
- UDP: in `udp_timely` files of 2, 0 and 3 fragments and one that cannot be opened;
  two copies
  of each message in flight, enough for a repeated and a stale one. `FinMod`
  stands for the 60 of `fin_file[fID % 60]` and is small so that it wraps. The
  client may be run again any number of times.
  In `udp_late` two files with the longer one first, so that ACK numbers beyond
  the second occur, and one that cannot be cut; `udp_stale` has the shorter first,
  so that they hit.
- Raw: six files of 0 to 3 fragments, one missing and the last not to be cut, in a
  buffer of three datagrams, so that every drop pattern of three in a row occurs;
  one fragment fills its last block.
- Web: two workers as in the code; `MAX_ATTEMPTS` 2 lets the main thread pass the
  limit; four targets, one per way `do_job` can end.
- DNS: the two zones of the demo with every record type; three queries of
  two clients, two sockets to forward with: a foreign query is forwarded after
  another one, and the third finds no socket.
- Chat: two entries and three connections, so that an entry is used again after
  each way out while the other is in use, and a full table is reached; `NAMELEN`
  5 is shorter than a long line, longer than a name; two lines, the second of
  which meets what the first left in the arrays, whoever sent it. The commands have
  two characters in the run; lines end inside one, right behind it, or whole, so
  that a half is completed by what is left of a whole one. The client of
  entry 1 may stop reading (`Deaf`), which blocks what the other does.
- Fork: four connections, one of them to a program that may never end: three
  children can end together, before, during and after the handler.
- Sudoku: four digits; two to six of the first nine cells empty, in a solved board
  and in two with a digit changed elsewhere: puzzles with one solution, several and
  none, and searches that fail several activations deep. The empty cells cross rows
  and boxes. Nine digits are in the proofs.

### Fairness

- IRC: `WF(Server)` - the process runs - and `WF(Answer)`: the one client whose
  handshake the server waits for sends its lines or hangs up. The second is an
  assumption about clients and is needed: `Connection` has no time limit, and
  without it `HangupReclaimed` and `LinesRead` fail.
- UDP: `WF` of client and server, whose timers expire, and `SF` of receiving a
  given fragment and a given ACK: a link that loses datagrams, but not all
  copies of one that is sent for ever.
- Raw: `WF` of client and server.
- Web: `WF(Notify)` and of each worker: threads are scheduled, and a fetch ends
  unless its server is silent (`Fail` and `Reply` are not offered then). Nobody
  owes a request, so `AddJob` and `Quit` have none.
- Chat: `SF(Server)`: the process runs, and a write that finds room now and then
  gets through. No client owes it anything: it reads only what `poll` reported.
  `Attended` therefore excepts the one case in which, from some time on, there is
  always a client that does not read.
- Fork: `WF` of `main`, of the delivery of a signal, of the handler, of each
  child's way to its program, and of the end of each program that is not
  `Endless`. Nobody owes a connection.
- Sudoku: `WF(Next)`: the program runs and the puzzle server answers.
- DNS: `WF` of the server and of the other server. Loss is not restricted;
  `EachAnswered` excepts a query whose reply was lost and those that come after it.

Deadlock is not checked: every model may stop, because the process ended, the
client is done, or the bounds on connections, lines or queries are used up.

## Proofs

The proofs hold for all values of the constants that satisfy the assumptions
named in the modules: any number of descriptors, slots, files, fragments,
workers, requests, connections and digits.

**IrcServerProofs.** `TypeCorrect`, `TableCorrect`, `NicknamesUnique`,
`ChannelsCorrect`. The invariant is `TypeOK /\ TableSound /\ NickUnique /\
ChannelsSound /\ AcceptReady`. `NickUnique` is not inductive alone: NICK tests the
slots `0 .. maxconn`, so it needs the conjunct of `TableSound` that says that
all live slots but the one in its handshake are inside that range, and that one
is the sender. `AcceptReady` is needed for `backlog` to stay a natural
number. The commands are dealt with once, for any sender, and used for the
handshake and for the round.

`RoundsComplete` needs `Round` beside that invariant: what `select` reported and is not
served yet is readable and belongs to exactly one live slot, the one in its handshake
excepted. From `accept` on `nready` is a cardinality of descriptors, in the scan one
of slots; the two are as many because no two slots share a descriptor (`OwnerCount`).
A close in the scan is of the slot just served, whose descriptor is no longer counted.

`CountersCover` has the hypothesis `PoliteHandshakes`: first lines are NICK, second
lines USER, as `Connection`'s comments expect. Without it `CountsCover` is
false: `quit` lowers `kusers` for a client that was never counted. The invariant
adds `Registered`: each live client is logged in, in its handshake, or hung up
in it and sends nothing more. The channel counters need no more than that
`part` and `quit` take off one for the client that leaves.

**UdpTransferProofs.** `TypeCorrect`, `WrittenIsClosed`, `FilesAreKept`,
`FilesAreWhole`, `AcksAreTrue`, `Implements`. `ClosedForGood` is inductive with the
types and gives `FileKept` for any delay. The others rest on `TimelyInv`, whose
parts are: fragments are stored under their own file (`BufferSound`); only files
this run of the client is done with are about to be written (`EndsBehind`); nothing
of an earlier file is in flight while one is sent (`NothingStale`). None of them
says that a file not yet reached is not written, since an earlier run may have
delivered it: its buffer is closed, so nothing of it is acknowledged and it cannot
reach its end again unless it is empty. The last is what
timely answers buy, and what udp_stale lacks. `Implements` is the refinement of
FileTransfer: `RecvEnd` is `Deliver` or a stutter, all other steps stutter.

**WebCheckerProofs.** `TypeCorrect`, `NoLostWakeup`, `TakenInOrder`. `Prompt` says
nothing while a notify is owed, so it needs `Covered`: with a worker asleep, the
workers on their way to the queue and the notify owed are together at least as
many as the requests.

**ChatServerProofs.** `TypeCorrect`, `ViewsCurrent`, `CountIsOffByResets`,
`NamesBegin`, `RoundsComplete`, all properties of the run but liveness. The
invariant adds two parts. `Covered`: no entry in use is above `maxi`; then
`Audience` is everybody but the sender, which is what `ViewCurrent` and
`CountDrift` need (a loop that stopped short would leave views behind). `Round`:
between `poll` and `accept`, `nready` is the number of entries reported plus one,
and they are all still readable; the accept then fills an entry outside
`revents`, so `RoundComplete` starts out true. In the scan it is kept because
serving entry i removes exactly i from what is left (`ServedRound`), and because
clients only make entries readable, never unreadable. `NamesBegin` rests on
`RenameFacts`: if the line has its whole argument, the part of `buf` that `/name`
copies begins with it, it has no `Nul`, and the cut removes at most what lies behind
it; if it has not, nothing is promised.

**ForkServerProofs.** `TypeCorrect`, `ProgramsIsolated`, `NoneForgotten`. `Isolated`
is inductive because it says what the server has at each of its steps: at the fork
exactly the connection it just accepted, since the one before was closed first.
`NoneForgotten` is the safety half of `Reaped`: a child that ended
and was not reaped has a signal pending or the handler at work, because the handler
returns only when no child is left.

**SudokuProofs.** `TypeCorrect`, `SearchComplete`, `RightBoardEntered`. The invariant
says that the stack is a prefix of the search. The board is the puzzle and the digits
of the frames, each in a cell of its own (`Frames`), and no digit placed meets its equal
(`Sound`). Every solution that agrees with the digits of the first frames has, in the
cell of the next, a digit that this frame has not passed yet (`Tried`): a digit that
`isSafe` refuses is in no such solution, and one whose activation failed neither. So
when a frame has passed all digits, no solution agrees with the frames below it
(`Failed`), and there is none at all when no frames are left.
That `row - row % 3` finds the cells of the same box is a lemma on
division, for any `B`. The size of the boxes need not fit that of the board, and the
puzzle need not be consistent.

**RawBroadcastProofs.** `TypeCorrect`, `NothingTwice`, `FilesAreWhole`,
`EveryFileArrives`. The server
knows a fragment's number and not its file, so no property is about what it
tests; all follow from the order of the datagrams. The queue is sorted by file and
number, ENDOFFILE last (`InOrder`); what the server has in its buffer or on disk was
sent before all of that (`Held`), so what is taken from the queue is in no file yet.
The ENDOFFILE of a fragment in the queue or the buffer is still to come or was dropped
(`EndAhead`), so where none was dropped two files never share the buffer.
For wholeness there are two halves: a fragment neither
queued nor dropped is in the buffer or in its file (`Kept`), and a file
before which all ENDOFFILEs came through has only its own (`Pure`). `EveryFileArrives`
is the safety half of `AllArrive`: an ENDOFFILE that was sent is queued, or was dropped,
or its file is on disk (`Delivered`); it says what arrives although something was
dropped, too.

**DnsServerProofs.** `TypeCorrect`, `EachToItsAsker`, `LoadedAsWritten`,
`ForeignNamesOnly`, `AnswersAsWritten`: all invariants of the run, for any zone files;
and `NoQueryForgotten`.

- `EachToItsAsker` rests on `Numbered` (the socket's queue is the end of what was
  asked, so `Taken` says which queries were taken) and `Forwarded` (while the server
  waits, whatever is under way on the socket opened last is the query in hand; no
  socket is used twice because none is closed).
- `LoadedAsWritten`: `Filled` says what the nodes hold in the middle of loading:
  what the files before this one and the lines up to this one give them. `cur_name`
  is the owner of the last line, which is where `WellWritten` comes in. `FlattenSeq`
  is defined by a recursive function; that it exists, is unique, grows by one
  sequence at a time and has the elements of its parts is proved here, each from the
  least number for which it fails.
- `ForeignNamesOnly`: by `Rooted` every node is below the root of a zone already
  opened, and these roots are nodes. So the shortest end of a name that is a node is
  the root of a zone (`Search`). `RootsLong`: a zone whose name is one letter is
  not found for that name itself (line 253 takes it for no name).
- `AnswersAsWritten`: the counts divide the packet into the three sequences that it
  was made of (`Sections`), and each record is one of the files' (`RecordsRight`);
  `Marked` says that only a node with a CNAME has its SOA's length spoilt. `Apart`,
  no zone inside another, is needed: the code takes the shorter root, whose
  authority section is then not the nearer zone's.
- `NoQueryForgotten` is the safety half of `EachAnswered`: of the queries taken, each
  has its reply unless it is the one the server waits for, the one that ended the
  program, or foreign after as many foreign ones as there are sockets (`Accounted`).
  `SocketsUsed` ties the sockets to the queries: at least as many of those taken were
  foreign as sockets are gone. By `RootsLong` only a foreign name reaches a socket, and
  by `Filled` a node that is missing is missing in the files (`WellWritten`).

`WellWritten`, `RootsLong` and `Apart` hold of the demo's files; MCDnsServer assumes
them of the run's, so TLC evaluates them there.

**Model-checked only.** Liveness: `HangupReclaimed`, `LinesRead`, `Terminates`,
`AllArrive`, `EveryRequestEnds`, `Attended`, `EachAnswered`, `Reaped`, `Released`, `Ends`
need fairness, which is outside the prover's reach; of some the safety part is proved
(`NoneForgotten`, `NoLostWakeup`, `RoundsComplete`, `NoQueryForgotten`,
`EveryFileArrives`). Every invariant and action
property that a passing run checks is also a theorem.

## Where the code and its documentation disagree

1. *irc_join*: `join`'s last loop has no null check. Once a client in a lower
   slot has left, JOIN ends the server; `server.cpp:30` says "join & privmsg is
   always right". `checkNickExist` has the same fault.
2. *udp_stale*: an ACK of the file before, later than the timeout, counts for a
   fragment of the current file that the server never got.

Seen in the models and not given a run of their own: in lab10 a fragment whose text
fills its last block and follows a longer datagram is discarded, and its file written
without it; in lab8 and lab10 a file of several words of which a later one is no
multiple of 900 octets ends the client; a lab8 client run again on the same server
sends the first file that the server has for ever; the DNS server adds a CNAME's
length to the SOA's and sends CNAME records with RDLENGTH 0; the sudoku client
enters -1 for each cell of a puzzle without solution; lab04's handler waits for
programs that still run, and the server with it; a client of the IRC server
that closes its connection without QUIT stays in `kusers`, which the greeting
announces as the number of users; the chat server's `howManyUsers` counts
every reset client for good; its names may end in what an earlier, longer line
left in `buf` or `newname`, and a read that ends inside `/name` is completed by it, so
that a client is renamed that asked for nothing (`lab05-1.cpp:99`); QUIT in the handshake
lowers the counter and leaves the connection open; an ENDOFFILE whose copies are
all lost loses a file the client takes for delivered; a name of one letter is
taken for `@`; with nested zones the shorter one answers; a name that starts with
four numbers gets an A record whatever type was asked for; two workers of the web
checker may use each other's look-up.

## What is not modelled

- Throughput server: a poll loop with one command client and one sink, whose state is
  a small part of what IrcServer and ChatServer have. Oracles: sequential, about
  hashing and formatting. Both in the plan below.
- In ChatServer, the addresses that `/who` prints.
- Unpacker, clients of lab03: one pass each, with state that ends with the pass.
- Teaching programs and templates: no system of their own.
- The wrappers (`socketwrapper`, `unixwrapper`) are in the models as what their
  callers see of them: a value or the end of the process.
- In UdpTransfer, the fork of fifteen processes (disjoint files), and a second run of
  the client while datagrams of the first are still in flight; a restart of the
  server, which loses `output_buf` and `written` and which the code does not provide
  for.
- In ForkServer, what the program does with its connection, and an `accept` that
  fails: the server never holds more than two descriptors of its own.
- Memory exhaustion; signals other than SIGPIPE and SIGCHLD.

## Plan

In the order of importance. Done: IrcServer and its proofs; UdpTransfer with
restarts, FileTransfer, the refinement and its proofs; RawBroadcast, WebChecker and
DnsServer with their proofs; ChatServer with clients that do not read, and its proofs;
ForkServer and its proofs; Sudoku and its proofs.

1. RawBroadcast against an abstract specification of a lossy link, weaker than
   FileTransfer: a file may be late or lack what was dropped, but is never mixed while
   its ENDOFFILEs came through.
2. Throughput server (lab06): the counter between `/reset` and `/report` while the
   sink is read in the same round.
