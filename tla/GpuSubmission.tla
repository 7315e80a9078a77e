--------------------------- MODULE GpuSubmission ---------------------------
(***************************************************************************)
(* Commands from a title's ring to the engine: the title's writes of       *)
(* DMA_PUT (DeviceSpace), the submissions they leave, and the emulator's   *)
(* consumption of them (emulator.rs consume_gpu_submissions), at the kick  *)
(* under the hypervisor and at the next tick under the interpreter.        *)
(*                                                                         *)
(* The title numbers its commands from 1. Each releases the fence with its *)
(* number. A ring of Slots commands ends in a jump to its start.           *)
(***************************************************************************)
EXTENDS DeviceSpace, PushbufferEngine

CONSTANTS
    Slots,          \* commands the ring holds
    MaxCommands,    \* bound: commands the title sends
    FenceHandle,    \* the object its semaphore is in
    Setups          \* tier and how the title learns that a slot is free

VARIABLES
    setup,   \* [tier, reuse]
    ring,    \* the title: commands queued, and of those kicked
    batch    \* submissions taken and not yet walked

submissionVars == <<setup, ring, batch>>

SlotOf(n) == 8 * ((n - 1) % Slots)
FenceAt == ResolveDmaObject(FenceHandle, 0).base
Fence == vram[FenceAt]

RingInit ==
  /\ setup \in Setups
  /\ ring = [queued |-> 0, kicked |-> 0]
  /\ batch = <<>>
  /\ dev = DeviceWrite(NewDevices, "DMA_GET", 0)
  /\ push = [w \in {4 * i : i \in 0 .. 2 * Slots} |-> Word("jump", 0, <<>>, 0)]
  /\ walk = AtRest
  /\ seen = <<>>
  /\ eng = [NewEngine EXCEPT !.semaphore = ResolveDmaObject(FenceHandle, 0)]

Engaged == batch # <<>> \/ walk.active

\* A title reuses a slot once the command in it has run, as the fence or GET
\* tells it, and leaves one slot free: PUT back at GET would read as nothing sent.
Finished == IF setup.reuse = "fence" THEN Fence ELSE ring.kicked

QueueCommand ==
  LET n == ring.queued + 1
  IN  /\ ~Engaged
      /\ n <= MaxCommands
      /\ n - Finished < Slots
      /\ push' = [push EXCEPT ![SlotOf(n)] = Word("header", 0, <<"SEMAPHORE_RELEASE">>, 0), ![SlotOf(n) + 4] = Word("bad", 0, <<>>, n)]
      /\ ring' = [ring EXCEPT !.queued = n]
      /\ UNCHANGED <<setup, batch, dev, eng, vram, walk, seen>>

\* take_submissions: everything kicked since the last call, in order.
Taken(d) == [d EXCEPT !.submissions = <<>>]

\* The title writes DMA_PUT. Under the hypervisor the write leaves the guest and
\* the range is walked before it goes on.
KickRing ==
  LET kicked == DeviceWrite(dev, "DMA_PUT", SlotOf(ring.queued) + 8)
  IN  /\ ~Engaged
      /\ ring.kicked < ring.queued
      /\ ring' = [ring EXCEPT !.kicked = ring.queued]
      /\ IF setup.tier = "whp" THEN batch' = kicked.submissions /\ dev' = Taken(kicked)
         ELSE dev' = kicked /\ UNCHANGED batch
      /\ UNCHANGED <<setup, eng, vram, push, walk, seen>>

\* Mutant: what is taken is dropped.
ConsumeDropping ==
  /\ setup.tier = "interpreter" /\ ~Engaged /\ dev.submissions # <<>>
  /\ dev' = Taken(dev)
  /\ UNCHANGED <<setup, ring, batch, eng, vram, push, walk, seen>>
\* pump_tick_deterministic.
ConsumeGpuSubmissions ==
  /\ setup.tier = "interpreter"
  /\ ~Engaged
  /\ dev.submissions # <<>>
  /\ batch' = dev.submissions
  /\ dev' = Taken(dev)
  /\ UNCHANGED <<setup, ring, eng, vram, push, walk, seen>>

\* Mutant: of a batch only the last range is walked.
SubmitLast ==
  /\ batch # <<>> /\ ~walk.active
  /\ walk' = Submitted(batch[Len(batch)].get, batch[Len(batch)].put)
  /\ batch' = <<>>
  /\ UNCHANGED <<setup, ring, dev, eng, vram, push, seen>>
\* consume_gpu_submissions hands the engine one range after another.
Submit ==
  /\ batch # <<>> /\ ~walk.active
  /\ walk' = Submitted(Head(batch).get, Head(batch).put)
  /\ batch' = Tail(batch)
  /\ UNCHANGED <<setup, ring, dev, eng, vram, push, seen>>

RingNext ==
  \/ QueueCommand
  \/ KickRing
  \/ ConsumeGpuSubmissions
  \/ Submit
  \/ PusherStep /\ UNCHANGED <<setup, ring, batch, dev>>

-----------------------------------------------------------------------------
(* Properties. *)

\* Every command the title kicks is run once and in order: the fence shows how
\* many ran, over a ring that wraps, with kicks the tick takes together. This
\* needs the title to trust the fence under the interpreter, whose GET runs
\* ahead of the engine (mmio.rs write of DMA_PUT, emulator.rs consume_gpu_submissions).
FenceCountsWork == ring.kicked > 0 => eng.releases = Fence /\ eng.aborted = 0

\* A title waiting for the fence of a command it kicked is answered: the ring's
\* wait ends in both tiers (emulator.rs pump_tick_deterministic, run_whp).
FenceReached == \A n \in 1 .. MaxCommands : ring.kicked >= n ~> Fence >= n


\* Every submission comes to an end: its walk is over, whatever it walks, and
\* the title waiting for it is answered.
SubmissionsFinish == WalksEnd /\ FenceReached
=============================================================================
