# Verification of the roller conveyor controller

TLA+ models, TLC runs and TLAPS proofs for the three firmware projects under
`src/`: the master controller (`exp_ctrl_master`), the two-belt slave board
(`exp_ctrl_drivetwo`) and the transfer-zone slave board (`exp_ctrl_drivethree`).

## 1. Inventory

A PC server sends packages and zone configurations over UDP to the master. The
master keeps the packages in transport, works out which rollers must turn which
way, and commands the slave boards over a daisy chain of CAN segments. Every
board drives one or two belt zones (drivetwo) or one rise-and-transfer zone
(drivethree), reads its photo sensors and reports them when asked. All programs
are bare-metal: one main loop, a 1 ms tick, and interrupts for CAN reception
and Ethernet.

| component | state | operations | what makes it correct |
|---|---|---|---|
| package table (`list.c`, `data.c`) | 20 slots, a sorted doubly linked list through them, a ring of results | insert, visit all, remove during a visit, allow/forbid, reinitialise | the ring is well formed; a pass visits everyone once; no slot is given out twice; loops end |
| routes (`data.c`, `logic_ctrl.c` 59-145) | none | zone neighbours to roller directions and exit sensors | directions of neighbouring zones fit, sensors are those of the exit side |
| transport logic (`logic_ctrl.c`) | per package: current zone, edges seen, resend count; per zone: frame counter, last sensor report | one visit per package per ms: deliver, advance, command, resend | no collision, the master's zone is the box's zone, everyone arrives, belts stop |
| zone configuration (`fun.c` 74-146, `flash.c`) | a configuration being received, the one in force, two flash pages | packet, write after 1 s, boot | the configuration in force is one the server sent, whole, also after a reset |
| server protocol (`fun.c`, `udpclient.c`) | receive buffer and state, queue of message types, one send buffer | receive, dispatch, reply, upload status and results | each command answered, each result sent |
| CAN (`can_bus.c`, `can1_bus.c`, `can2_bus.c`) | transmit rings, reassembly buffer | segment, queue, send, relay, reassemble | a message arrives whole or not at all, and never mixed |
| drivetwo belts (`moto.c`, `can2_bus.c`) | per belt: command, type, direction, last frame number, ramp | start/stop command, trigger stop, periodic application, report | commands take effect once, a trigger stop is final |
| drivethree (`moto.c`) | jack position, roller state, turn sequence | rise, lower, run in and out, alarm | the jack goes where the running module needs it, the legs of a turn run in order |
| parameters and flash of the slaves | speed, direction, ramp | set, read, store | what is read is what was set |

How they interact: the list is touched only by the master's main loop, between
whose steps commands are dispatched; the sensor reports and the message queue
are shared with the CAN interrupt; master and boards share only messages, which
a full queue may drop; boards and boxes interact through motors and sensors.

What is hard: reports are up to 300 ms old, so a decision is taken on a past
position; start commands are numbered per zone by a counter that the packages
around that zone share, and a board ignores a repeated number; a stop command
to a taken next zone is repeated with the order to wait before it, one to the
belts a package has left or been delivered from never; the table is
reinitialised under the packages in it; flash is written word by word and a
reset may cut it off; the CAN and the Ethernet interrupt store what the main
loop is just reading. `PROJECT.json` lists every such place under
`hazards`, at its line, with the properties that would notice.

## 2. Modules

| module | models | state and actions |
|---|---|---|
| `PkgPool` | what the package table promises | packages carried, their permission, lost slots, results; accept, permit, deliver, report, reconfigure |
| `PkgList` | `list.c`, the table of `data.c`, and the walks over it | the C pointers `pxNext`, `pxPrevious`, `pxIndex`, `pvContainer` (as the set `contained`), `uxNumberOfItems`; one action per loop iteration of `vListInsert`, `logic_pkg_trans_process`, `funrecv_pkg_state_cmd`; `pc` is the loop the main loop is in |
| `PkgListProofs` | | theorems about `PkgList` |
| `ZoneRoute` | the pure part of the transport logic | operators with the names of the C functions |
| `MCZoneRoute` | | the floor plan as a reference: zones on a grid, turned any way, and all paths |
| `ZoneRouteProofs` | | theorems about `ZoneRoute` on the floor plan of `MCZoneRoute` |
| `Conveyor` | `logic_ctrl.c` on a line of belts, the start-command channel, drivetwo's obedience, the boxes | `node` is `sData_pkg_node`, `zoneState` and `cnt` the arrays of the same purpose, `belt`/`motor`/`lastFrame` are `moudle1_info`, the motor and `cansend_framecnt_*` of a board; a visit to one package is one action, split by outcome: free slot, delivers, advances, keeps |
| `ConveyorProofs` | | theorems about `Conveyor` |
| `Fifo` | what a queue promises | `waiting`, `out`; put, take |
| `RingQueue` | the ring of `fun.c`, `can_bus.c`, `can1_bus.c`, `can2_bus.c` | `queue`, `front`, `rear`; the main loop's loads and stores are steps of their own (`pc`, `load`), an interrupt's put is one step |
| `RingQueueProofs` | | theorems about `RingQueue` |
| `ZoneConfig` | `funrec_zoneConfig_cmd` and the master's `flash.c` | `zonetmp`, `zoneConfig`, `online` (`funOnlineCtrl.confid`), the two flash pages word by word; one action per packet, per erased page, per programmed word, for the reading back and for a reset; the server that repeats packets is external |
| `ZoneConfigProofs` | | theorems about `ZoneConfig` |
| `DriveThree` | `moto.c` of drivethree, the start commands of `can2_bus.c` and the master's numbering of them | `moudle`, `mot`, `position`, `risecmd` are the C variables; one action per function the main loop calls every millisecond, reading and writing of a command apart (`moto_ctrl_convey_process`, `ConveyWrite`), the CAN interrupt (`canbus_recv_start_cmd`) between any two; the jack and the boxes at the sensors are the environment |
| `DriveThreeProofs` | | theorems about `DriveThree` |
| `CanSegment` | `can_bus_send_msg` of the master and the reassembly of the boards | the frames on their way as a queue of messages, `recv_buff` and the three `g_Seg...` variables; one branch of the receiver is one action |
| `BoardPara` | parameters and flash of drivetwo and drivethree, on top of `CanSegment` | `mototemp` and `flag` are what the interrupt leaves, `pc`, `buff`, `page` the main loop's storing halfword by halfword, `motolocal` and `force` what `flash_init` takes over; `board` says which of the two programs it is |
| `BoardParaProofs` | | theorems about `CanSegment` and `BoardPara` |
| `ServerLink` | `udpclient.c` and the dispatch, answer and result queues of `fun.c` | `statue`, `recv_buf`, `send_en`, `send_buf`, `msgSendQueue`, `pkgresultqueue`; the main loop's pass in six steps, the Ethernet interrupt and the tick between any two; network and server are external |
| `ServerLinkProofs` | | theorems about `ServerLink` |

`PkgList` refines `PkgPool` through `Pool == INSTANCE PkgPool WITH ...` at its
end: a linked item is a package carried, an item with a container that is not
linked is a lost slot. `Conveyor` takes the directions and exit sensors from
`ZoneRoute`. It abstracts the list to "slots in order", which is what the
theorems about `PkgList` allow. `BoardPara` extends `CanSegment`: each of its
steps is one of the frames' or leaves them alone, and what is proved of the
reassembly holds of the board.

What is idealised in `Conveyor`, by name:

* `Settled` and `CountPass`: the 300 ms between two status requests are long
  enough for the answers (1 ms per station), two whole passes (1 ms each), the
  frames they send (about 1 ms each) and the boards' periodic motor update
  (50 ms). `hold`: a box needs more than two such periods for a quarter of a
  zone, so every position is reported before it is left.
* Belts all run at one speed; a box on two belts of which one stands still may
  move or stay, at every step anew.
* `Visiting`: a pass begins when the frames of the one before have gone out.
* `RecvPkgTrans` lets the server wait until the packages before are `Spacing`
  zones away. The server is not in the repository; the code refuses nothing.
* `TakeOff`: somebody removes a delivered box, sooner or later.

What is idealised in the others:

* `ZoneConfig`: zone numbers start at 1, as in the floor plans of `document/`,
  so a node that was never written is told apart from one that was;
  `RoomAssumption` leaves room for two packets to be taken twice. Half words of
  one node are programmed in one step: a node is the unit a reader can tell
  torn from whole.
* `DriveThree`: speed ramps are left out (a motor runs or stands), and one
  corner sensor at most is newly covered in a millisecond. `taken`, `raced`,
  `ended` and `restarted` are observers no action of the board looks at.
* `CanSegment`: the frames to one board stay in order (every queue on the way is
  first in, first out, which `RingQueue` is about); a short message that is
  written over the buffer's first bytes stands for all of them.
* `BoardPara`: function and direction of a parameter set are left out, since
  nothing reads the first and every start command replaces the second. What
  drivetwo reads beyond the words it has collected is 0 or 1, at each word anew.
* `ServerLink`: the link is up; a request is its kind and a number that only
  the server knows. A datagram that arrives while another waits is dropped. The
  answer to a packet of a configuration also carries the number of the packet
  that was taken last when it is sent (`fun.c` 473); the model's server does not
  look at it, so what is proved needs no server that does. The ring of results
  has no limit in this module: `produced` counts the results put in it, and a
  result that finds it full (29 places, `data.c` 31) is the case of
  `main_onems_process` in which none is produced. So `ResultsConserved` is about
  the results that got into the ring; that a full ring drops one, and only then,
  is in `PkgList` and `PkgPool`.

## 3. Runs

| run | bounds | shows |
|---|---|---|
| `pkg_list` | 3 slots, 2 package ids, a result ring of 3, at most 4 insertions between reinitialisations | the list is a sorted ring in every state, passes are complete, loops end, the table implements `PkgPool`. Three slots are first, middle and last; four insertions use a slot again |
| `pkg_state_cmd` | 2 slots, 1 package | *violation*: the walk for an allow/forbid command never ends |
| `zone_route` | 3 by 2 grid, each zone turned 4 ways, paths of 3 zones | directions and sensors are right. Three zones are a first, a middle and a last one, and every kind of turn |
| `conveyor` | 4 zones on 2 boards, 2 packages, 2 slots, a resend on every visit, counters modulo 4, no loss | no shared zone, no lost box, no false result, everyone delivered, belts at rest in the end |
| `conveyor_lossy` | 3 zones on 2 boards, 2 packages, any one frame lost | resends heal it; no box leaves the end |
| `conveyor_close` | as `conveyor` with one empty zone between packages | *violation*: a package is taken for the one before it |
| `ring_queue` | 4 slots (3 places), 3 items, filled by the main loop or by the interrupt | order and content of the queue survive every interleaving. Three places are empty, part full and full, and the indices wrap |
| `ring_shared` | as `ring_queue`, filled by both | *violation*: the item is not stored at the tail `enQueue` advanced to |
| `zone_config` | three configurations (two of two packets in page 1, one of a single packet that reaches page 2), pages of 2 nodes, 3 uploads, 1 reset or failed erasure | the configuration in force is whole and survives resets, repeated packets fit, an undisturbed upload takes effect. Three uploads let a configuration be left for another and come back; 135 510 states |
| `drive_three` | a straight run on belts and on rollers, a turn beginning on each, a jack of height 2, limit 3, 2 commands, 1 alarm, 1 reset of either side | the last command wins, legs are in order, the jack is where it is believed to be and comes to where it is needed, commands are carried out. Height 2 has a middle where the jack can be turned round, limit 3 lets a search succeed and fail, two commands race; 313 783 states |
| `board_para` | both boards, sets of one and two modules (one with a ramp of 0), a start command, 3 messages, 2 losses, resets or failed erasures | only whole messages are acted upon, a set that was answered is stored and in force. Sets of 3 and 4 frames have first, middle and final frames, two faults are what it takes to mix two messages; 394 237 states |
| `server_link` | 2 kinds of request, 2 of each, 2 results, a send queue of 2, one loss, one early repetition | answered requests were acted upon, results arrive once and in order, everything settles. The queue of 2 overflows with an answer and announcements; 1 012 856 states |

`RingQueue` takes from a ring in both ways the code has, `outQueue` (advance,
then read) and `can_send_frame_process` (copy, then advance). The master's
frame ring is filled by its main loop only. The message queue and the relay
rings are filled by both, which `ring_shared` is about; `OneProducer` separates
the two cases.

What makes `conveyor` hold is that `Spacing` is one less than the number of
zones: the server sends a package when those before it are in the last zone, so
one package at a time is on its way and one at the end. Then TLC finds no error
with 3 packages in 2 or 3 slots on 4 zones either, nor on 5 and 6 zones. Two
zones or three are too few. A server that sends the third package while the
second is on its way lets packages queue, which section 5 has more about.

The counters of 16 bits are modulo 4 in the model: at most two numbers of a
zone are in flight, so a small modulus meets every wrap-around sooner. The
boards' memory of the last number starts outside the range, as 0xFFFF does.
The modulus must exceed `MaxLoss + 1` (`ConveyorAssumption`): a lost frame takes
a number with it at most, and a board must not meet its own number again before
it has heard another. With 65536 in the code that allows 65534 losses; the
proofs need no more than a modulus above 1.
`BeltsStop` is checked without loss only: the stop of a belt that a package has
left or been delivered from (`logic_ctrl.c` 160) is sent once, and a lost one
leaves the belt running until the next package passes. The stop of a taken next
zone is sent again with every resend (`logic_ctrl.c` 529).

Fairness. `PkgList`: the main loop runs for ever, so a loop it has entered goes
on (`WF` of the iterations); no fairness is given to commands. `Conveyor`: the
main loop goes on (`WF` of the visit, stated on its cursor), frames and answers
arrive, boards apply their state, the 300 ms elapse (`SF`, since the model's
request is enabled only between two passes), a box that all its belts drive
moves on, a delivered box is taken off. Nothing obliges the server to send.

`ZoneConfig`: the main loop and its tick go on (`WF` of each step of the
writing), and a packet that is repeated is answered in the end (`SF`, since the
master does not listen while it writes). `DriveThree`: the main loop goes on
(`WF`), a run command that is repeated arrives in the end (`SF`: the master
repeats it for as long as the package is there), and a box whose first leg runs
comes to the end of the zone (`SF`: the leg may be stopped and begun again).
`BoardPara`: the main loop goes on whatever the interrupt does (`WF`).
`ServerLink`: main loop, tick, network and server go on (`WF`); `SF` of `Sends`
says that the server's repetitions do not hit the few instructions between
`udpclient.c` 175 and 186 in every pass, where a datagram that has just come
postpones the sending. Repetitions are seconds apart, passes less than a
millisecond.

Deadlock is checked except in `zone_config` and `board_para`, where the server
may have sent all it is going to send and the system rests.

What the properties leave out, because the code does not give it, is named in
each property: `mistaken` and `Torn` in `InForceWhole`, `raced` in
`LastCommandWins`, two losses of different kinds in `HandledWhole`, `spoiled`
in `SetTakesEffect`, `hasty` in `AnsweredIsHandled`. Each is reached in its run
and needed: without it TLC finds a counterexample. `StageFits` says `mistaken`
too; the configurations of the run fit even then, unevenly cut ones (3 and 1
zones in the first packets of two configurations of 4, for 10 places) do not.

## 4. Proofs

`PkgListProofs` proves for every number of slots, packages and results, under
`ListAssumption` only (slots are fewer than the end marker's value, the result
ring has a place), without the bounds of the runs except `MaxInsert`, which may
be any number:

* `TypeCorrect`, `ListSorted`, `PassVisits`: the three invariants of `pkg_list`;
* `Refinement`: `PkgList` implements `PkgPool`.

The inductive invariant `IInv` is the type invariant, the sorted ring, and four
facts that make it inductive: a linked item has a container (else a slot would
be handed out twice), the item being inserted is free and its place lies ahead,
the cursor of a walk is on the list, and the packages still to be visited are
exactly the live ones from the cursor on. The last is why a removal does not
skip or repeat anyone: `uxListRemove` steps the cursor back, and the loop's own
step then lands on the follower. The refinement has one lemma per step that
changes the pool; all others stutter.

`RingQueueProofs` proves for every size above 1 and every set of items:

* `TypeCorrect`: the indices stay in the buffer, whoever fills the ring;
* `Refinement`: a ring implements `Fifo`, under `OneProducer`, the assumption
  that no ring is filled from both contexts. `ring_shared` shows that the
  assumption is needed.

Its invariant says that while the main loop is inside `enQueue` the ring is one
it fills (so the interrupt does not), that it has found room, that `rear` is
where it read it, and that a frame copied to a mailbox is still the oldest
one. `Waiting` counts the item being put in from the moment `rear` has moved,
which is why its slot may still hold something else then. The modulus is dealt
with once (`Modulus`, `Distance`, `Slot`); a step is then one of `Put`, `Take`
and nothing, compared place by place (`PutIs`, `TakeIs`, `SameIs`).

`BoardParaProofs` proves of `CanSegment`, for every set of messages and lengths
(under `SegmentAssumption`: a message fits in the board's buffer and its
segments in seven bits), that only whole messages are acted upon (`WholeMessages`), unless
frames of both kinds were lost. `HandledWhole` is not inductive: one must know
what the buffer holds in between. The strengthening says that the frames on
their way have numbers of their message (`OnTheWay`), that `g_SegBytes` is the
length of what the buffer holds (`BuffLength`), that without a lost first
frame what comes to a begun buffer is the continuation of its message
(`HeadsArrive`), and that without a lost tail a begun buffer is exactly the
frames of the current message that have left the path (`TailsArrive`).

Of `BoardPara` it proves that every step is a step of `CanSegment` or leaves its
variables alone (`BoardImplementsSegments`), and with it `HandledWhole` of the
board, for any sets, resets and failed erasures; and further, for both boards:

* `BoardTypeCorrect`. Types are not obvious here: when frames of both kinds are
  lost, the interrupt hands over a FIRST frame of one set and a FINAL frame of
  another, and what is indexed by their number of modules comes from both.
  `FramesFit` says that part k of what is begun is part k of *some* message with
  parts after it, from which `ReceivedIsSet` gets one or two modules with proper
  words. `LoopInv` adds what the main loop has collected at each place of the
  copying, and that a page is numbered 1, 2 or blank.
* `ResetChangesNothing`: `InForceIsStored` of drivethree. `Storing` says what the
  flash holds after i words, that a page with a number has all words of the first
  module, and that outside the storing what is in force agrees with it once both
  went through the limits (`LimitedTwice`: they leave what they limited alone).

`ZoneRouteProofs` proves the three invariants of `zone_route` for a grid of any
size, any turning of its zones and paths of any length, under `GridAssumption`
(there are fewer zones than 0xFFFF, which means "no zone"): `DirectionsFit`,
`ExitBitsRight`, `StraighteningSafe`. The invariant `PathInv` is that a path goes
from neighbour to neighbour by its headings and never straight back. The
geometry is in two lemmas: a neighbour has the zone as its neighbour in the
opposite direction (`TowardsBack`), and no two neighbours of a zone are the same
(`TowardsDiffer`), so the search of `data_find_nearzone_direction`, in which the
first match wins, finds the right side (`NearIs`). The rest is the table:
`TableTurns`, `TableBegins` and `TableEnds`, side by side.

`DriveThreeProofs` proves all five safety properties of `drive_three`, for every
set of directions, period, height and limit, under `DriveAssumption`:

* `TypeCorrect`, `JackCorrect`, `NumbersNew` from the invariant `Sound`: types,
  where the jack is, and that the numbers the board has seen are not above the
  master's counter;
* `LastWins`, `ArrivalFirst` from `Current`, which relates the command last
  taken to how far the main loop has come with it: while it is stored it is the
  one stored (only the type of a turn is overwritten), once the first leg was
  started its module runs until something noted in `ended` stops it, and from
  the last setting of a module on it is done, even before `value` is withdrawn.
  All of this is claimed only if the command did not come between a reading and
  a writing (`raced`); the rest, `Writing`, holds always. One lemma per action;
  alarms and trigger stops share one (`StopCurrent`), and so do the steps that
  change nothing of it (`SameCurrent`).

`ConveyorProofs` proves two theorems for every length of the line, number of
slots, packages and lost frames, under `ConveyorAssumption` (a line has at least two
zones and zone numbers are below 0xFFFF, which means "no zone"):

* `TypeCorrect`: the type invariant of `conveyor`;
* `NothingFalls`: no box is driven off the end of the line.

Three facts make it inductive. Every direction computed on a line is straight
ahead (`AheadEverywhere`, a calculation with `ZoneRoute`). Every frame to the
last belt that says run says trigger stop as well, and so does the belt
(`SafeFrame`, `BeltsSafe`): this is where all the branches of a visit come in.
And once a status request has gone out since a box moved, the last belt does
not run under a box at the end (`EndStopped`). A lost frame takes nothing from
that, which is why the theorem needs no bound on losses.

Three more rest on `OneAtATime`: at least four zones, a server that waits until
the packages before are in the last zone, no frame lost. It is what `conveyor`
runs with; section 3 and `conveyor_close` say why less will not do. Under it,
for any length of the line, number of slots and packages:

* `BoxesApart`: `NoCollision`, no two boxes share a zone;
* `ZoneTracked`: `Tracked`, the master's zone is the box's zone;
* `ResultTrue`: `DeliveryTruthful`.

None of the three is inductive, since what the master decides follows from
reports, visits and frames that lie some time back. The invariant `OInv` says,
link by link, that none of it is out of date:

* `Line`, about boxes and slots: one package at most is in the last zone and one
  before it (`Alone`), a box is within four quarters of its package's zone
  (`Places`), one box at most lies in the last zone (`OneAtEnd`), and while a
  package is carried there the next is in the first five quarters of the line,
  no more than two further than the first has come into its zone (`Lockstep`);
* `Sensors`: what the master has heard is what a box shows now or showed before
  its last move, and once the board has answered since (`Told`) it is exactly
  that. `EndBlind` is about the delivered box: on delivery the report of the last
  zone is cleared (`VisitDelivers`) while the box still lies there. It is heard of
  again before the next package nears, which is where the four zones come in;
* `InTime`: a box does not move on from where its package has to be switched
  before a visit that knows of it (`Due`), and `Heeds`: that visit saw whether
  the last zone was taken;
* `Numbers`: the latest frame to a zone, or the board's memory if none is under
  way, carries the master's counter, so the next fresh one is not ignored;
* `Obeys`: the frames under way to the last two zones, from one on that is sure
  to be taken, all say the right thing (`Ends`): hold the box (`Holding`), let it
  pass (`Passing`), carry it to the end (`Carrying`). Once a status request was
  sent the belts do so (`Runs`), since requests are sent when the chain is empty
  and the motors obey.

The zones further back need no such part: with one package before the last zone
nobody is in its way. Each action has two lemmas, `...Heard` about the first
four parts and `...Obeyed` about the rest. Sending and receiving are dealt with
once, by the operators `Only` and `Opens` on the commands of a visit
(`SentNumbers`, `SentKeeps`, `SentOpens`, `ReceivedIs`, `CurrentAndNextTells`).

Two more hold whatever frames are lost and however many, on a line of any
length, under `AfterDelivery`: the server waits for the result of a package
before it sends the next. It is what `conveyor_lossy` runs with, and a
delivered box may still lie at the end when the next package comes:

* `LossyTracked`: `Tracked`;
* `LossyResultTrue`: `DeliveryTruthful`.

What the master decides then hardly rests on what the belts do. The invariant
`AInv`, which TLC agreed with on lines of 2 to 4 zones with 2 losses and on one of
2 zones with 30:

* `Boxes`: one package is carried at most (`Single`), its box is in its zone or
  no further than the entry of the next (`Follows`), and once it is in the last
  zone no delivered box is there any more (`EndClear`);
* `Reports`: what was heard of entries and exits is of that box, and a delivered
  box at the end has been reported before the next gets beyond the entry of the
  first zone (`EndKnown`);
* `OnTime`: the box does not move on from where its package has to be switched
  before a visit that knows of it. There is one exception: into a last zone that
  is taken a package is not switched, and when the frames that should have held
  it are lost its box goes on, up to the entry. It goes no further (`Barred`),
  because the last belt stands (`Still`): it stood under the delivered box when
  the boards were asked, and from the report of that box on no visit starts it
  before the package is switched (`Held`).

`NoCollision` is not among them, and cannot be: in the exception two boxes are
in the last zone. TLC finds it on 2 zones with 30 losses.

`ZoneConfigProofs` proves `TypeCorrect` and `DurableInForce`: a configuration in
force is the one in the flash, for all configurations that fit, cut into packets
in any way, and any number of uploads, resets and failed erasures. `Durable` is
the invariant: a configuration is in force only outside a writing, and the
upload under way has no head (`Headless`): its first packet would have dropped
the configuration in force, and without it fewer packets are counted than the
number of the last one says, so nothing is complete and nothing gets written.

Three more are about what the packets leave in `zonetmp` and in the pages:

* `StageAlwaysFits`: `StageFits`, under `RoomAssumption`. `Staged` says that,
  unless `mistaken`, a writing that is due or under way has one whole
  configuration before it (`Full`), and that otherwise the packets taken are the
  first ones of a configuration, each once (`Taking`), or come without a first
  one and still fit with all the server has left to send (`Loose`).
* `WholeInForce`: `InForceWhole`. `PagesKeep` says that a page with a count of
  zones holds those of one configuration, or was cut off before its nodes, and
  that while a page is being programmed `zonetmp` is what it is programmed from.
* `ReceivedIsReadBack`: `ReadBackIsReceived`, from `Used` (a node counted as
  received was written). The proof asked for a condition that the property had
  left out: that what was received fits. A packet taken for one of another
  configuration can fill `zonetmp` beyond its end (configurations of 5 and 11
  zones, cut after 1 and after 10, in 14 places), and what lies beyond is not
  read back.

`ServerLinkProofs` proves `TypeCorrect`, `AnsweredHandled` and `ResultsKept` for
any number of requests, results and places in the queues. For the requests its
invariant `Orderly` says, for each kind and as long as none was repeated
hastily, that the request or its answer is in one place at most between the
server and back (`Single`), that what is under way belongs to the request the
server is waiting for (`Rightful`), that an answer under way is to a request
acted upon, and that the earlier ones were acted upon (`Past`). For the results
`ResultsConserved` is inductive with one addition, that no number
reported exceeds the count of those given out (`Conserved`); each action then moves one
number from a place to the next.

Only model-checked: the liveness properties (they are out of the prover's
reach). Every invariant of a passing run is stated by a theorem, those of
`Conveyor` for the servers named above.

## 5. Findings

* The allow/forbid command hangs the master (`fun.c` 184): the walk ends at the
  item whose value equals the item count.
* Packages with one empty zone between them are confused (`logic_ctrl.c` 338):
  a sensor report says that a zone is taken, not by whom. Distance at the start
  does not help when packages queue: on 5 zones, with 3 packages and `Spacing`
  3, a box at the end keeps two others waiting behind it, they leave close
  together when it is lifted off, and the second is taken for the first
  (`Tracked` violated after 1006 steps). With 2 packages there is no queue, and
  TLC finds no error with `Spacing` 3 on lines of up to 9 zones.
* `enQueue` and the relay rings' put are run by the main loop and, between any
  two of its instructions, by the CAN interrupt: the item of one is lost or an
  old one repeated (`fun.c` 42).
* Also visible in `PkgPool`: a new configuration loses the slots of packages in
  transport until reboot (`lost`), and the server is acknowledged packages that
  find no slot (`RecvPkgTransFull`).

Behaviour the models show and no document of the repository speaks against:

* Zone configuration. The first packet of a new configuration is answered and
  drops the one in force (`fun.c` 96), and when the server then returns to the
  announced one its packets change nothing, since the identifier is still the
  announced one. Nodes a larger configuration left in the receive buffer are
  counted for a smaller one (`flash.c` 103), which then never takes effect until
  a reset. A first packet of another configuration may be taken for a repetition
  (`fun.c` 103). A page whose numbers were written and whose nodes were not is
  accepted at start (`flash.c` 112). The table is written without a look at its
  size (`fun.c` 125); only the recognition of repetitions keeps it in bounds.
* Rise and transfer zone. A command stored between the reading and the writing
  of another is lost (`moto.c` 717). An alarm of the first leg's motor is taken
  for the box's arrival (`moto.c` 319 and 775). A turn of type TRIGSTOP has no
  first leg. A command that replaces a turn leaves the first leg's module
  running. A jack sent the other way half way keeps turning as before until its
  search is given up, and comes back at the second try (`moto.c` 525). Rollers
  and belts start without waiting for the jack. When both modules run the
  second decides where the jack goes. After a restart of the master a first
  command with the board's last number is ignored, with all its resends
  (`restarted` in `NextNumberIsNew`, which says that nothing else has this
  effect; TLC finds the ignored command as soon as the exception is left out).
  Over-voltage stops the belts but is never reported: `moto.c` 472 compares
  `g_alarm_flag & 0x02` with 1.
* Parameters. A drivetwo programs all halfwords at one address (`flash.c` 100)
  and keeps no set beyond a reset. `flash_init` at the end of a storing
  withdraws the set that arrived meanwhile, although it was answered
  (`flash.c` 23). A 0 stored leaves the older value in force until a reset. The
  master asks for parameters with a command number (3) no board knows (4).
* Server link. An answer carries the kind of its request, and for a packet of a
  configuration what `zonetmp.pkgcurnum` is by then, but nothing that tells two
  requests apart in general: one to a request repeated too early is taken for
  the next one's. A result whose datagram finds
  no pbuf is lost for good. A result announced once too often yields an empty
  datagram.

## 6. Plan

1. done: `PkgPool`, `PkgList`, its proofs, `ZoneRoute`, `Conveyor`, `Fifo`,
   `RingQueue`, its proofs.
2. done: `ZoneConfig`; the start commands of a transfer zone with a restart of
   the master, in `DriveThree`, with its proofs; `CanSegment` and `BoardPara`
   with their proofs; `ServerLink`.
3. done: proofs of `ZoneRoute`, `ZoneConfig`, `BoardPara`, `ServerLink`,
   `Conveyor`. Left: what `Spacing` must be for packages that do not queue, as a
   hypothesis weaker than `OneAtATime` and `AfterDelivery`.
4. Model: packages that are not allowed to go on and visits split by a report of
   the CAN interrupt (`Conveyor`), status pages (`ServerLink`), alarms of a
   drivetwo and its trigger stop racing a start command.

## Not modelled

Motor ramps and PWM (the speed, not whether a motor runs), sensor debouncing
(the models take the debounced value), register initialisation, setting up the
network, lwIP, its port, the CMSIS and peripheral libraries: vendored or
without state of the system's own. They make up nearly all lines of the
repository. Reading parameters back from a board: the request is never
answered. Status pages: a payload no other state depends on, but for the page
being overwritten while its message waits, which point 4 names.
