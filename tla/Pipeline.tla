------------------------------ MODULE Pipeline ------------------------------
(***************************************************************************)
(* src/go-concurrency-practice/fan-in-and-out/main.go: a generator whose   *)
(* numbers two processors share, the one channel both send their results   *)
(* to, and the goroutine that closes it when both are done.                *)
(*                                                                         *)
(* The channels have no buffer, so a send and its receive are one step.    *)
(***************************************************************************)
EXTENDS Naturals, Sequences, FiniteSets, SequencesExt

CONSTANT Numbers  \* the generator counts from 1 to Numbers; 10 in the source

Processors == {"processor1", "processor2"}

VARIABLES
  next,          \* i, the number the generator sends next
  inputClosed,   \* close(input_channel)
  val,           \* the number each processor has
  processor,     \* where each processor is
  running,       \* the counter of processor_wait_group
  outputClosed,  \* close(output_channel)
  printed,       \* what main has printed
  pipe           \* where main is

vars == <<next, inputClosed, val, processor, running, outputClosed, printed, pipe>>

Init ==
  /\ next = 1
  /\ inputClosed = FALSE
  /\ val = [p \in Processors |-> 0]
  /\ processor = [p \in Processors |-> "receiving"]
  /\ running = 2
  /\ outputClosed = FALSE
  /\ printed = <<>>
  /\ pipe = "printing"

-----------------------------------------------------------------------------
\* What a processor makes of a number.
Result(p, n) == IF p = "processor1" THEN n * 2 ELSE n * n

\* A send of the generator meets a receive of a processor.
GiveNumber(p) ==
  /\ next <= Numbers
  /\ processor[p] = "receiving"
  /\ next' = next + 1
  /\ val' = [val EXCEPT ![p] = next]
  /\ processor' = [processor EXCEPT ![p] = "sending"]
  /\ UNCHANGED <<inputClosed, running, outputClosed, printed, pipe>>

CloseInput ==
  /\ next = Numbers + 1
  /\ ~inputClosed
  /\ inputClosed' = TRUE
  /\ UNCHANGED <<next, val, processor, running, outputClosed, printed, pipe>>

\* A send of a processor meets main's receive; the processor sleeps then.
PrintResult(p) ==
  /\ processor[p] = "sending"
  /\ pipe = "printing"
  /\ printed' = Append(printed, Result(p, val[p]))
  /\ processor' = [processor EXCEPT ![p] = "sleeping"]
  /\ UNCHANGED <<next, inputClosed, val, running, outputClosed, pipe>>

WakeUp(p) ==
  /\ processor[p] = "sleeping"
  /\ processor' = [processor EXCEPT ![p] = "receiving"]
  /\ UNCHANGED <<next, inputClosed, val, running, outputClosed, printed, pipe>>

\* Definitions named Faulty... are never part of the specification: each is a
\* plausible mistake in the definition that follows it, kept to show that the
\* properties notice it.

\* Done is not deferred, and is forgotten.
FaultyProcessorEnds(p) ==
  /\ inputClosed
  /\ processor[p] = "receiving"
  /\ processor' = [processor EXCEPT ![p] = "ended"]
  /\ UNCHANGED <<next, inputClosed, val, running, outputClosed, printed, pipe>>
\* The range loop ends on the closed channel, and Done is called.
ProcessorEnds(p) ==
  /\ inputClosed
  /\ processor[p] = "receiving"
  /\ processor' = [processor EXCEPT ![p] = "ended"]
  /\ running' = running - 1
  /\ UNCHANGED <<next, inputClosed, val, outputClosed, printed, pipe>>

\* Added to the wait group once for both processors.
FaultyCloseOutput ==
  /\ running <= 1
  /\ ~outputClosed
  /\ outputClosed' = TRUE
  /\ UNCHANGED <<next, inputClosed, val, processor, running, printed, pipe>>
\* The monitor's Wait returns; it is the only one to close the channel.
CloseOutput ==
  /\ running = 0
  /\ ~outputClosed
  /\ outputClosed' = TRUE
  /\ UNCHANGED <<next, inputClosed, val, processor, running, printed, pipe>>

MainEnds ==
  /\ outputClosed
  /\ pipe = "printing"
  /\ pipe' = "ended"
  /\ UNCHANGED <<next, inputClosed, val, processor, running, outputClosed, printed>>

Next ==
  \/ \E p \in Processors : GiveNumber(p) \/ PrintResult(p) \/ WakeUp(p) \/ ProcessorEnds(p)
  \/ CloseInput
  \/ CloseOutput
  \/ MainEnds

\* No goroutine stops for good, and the program is finite.
Spec == Init /\ [][Next]_vars /\ WF_vars(Next)

-----------------------------------------------------------------------------
(* What holds *)

TypeOK ==
  /\ next \in 1 .. Numbers + 1
  /\ {inputClosed, outputClosed} \subseteq BOOLEAN
  /\ val \in [Processors -> 0 .. Numbers]
  /\ processor \in [Processors -> {"receiving", "sending", "sleeping", "ended"}]
  /\ running \in 0 .. 2
  /\ printed \in Seq(Nat)
  /\ pipe \in {"printing", "ended"}

\* "determine when both processors are completely done before closing the
\* merged channel" (objective.md): nobody is left to send on the closed
\* channel, which would panic; and main ends when it has printed, for each
\* number the generator counts, what exactly one of the processors makes of it.
EachNumberOnce ==
  /\ outputClosed => \A p \in Processors : processor[p] = "ended"
  /\ pipe = "ended" =>
       \E share \in [1 .. Numbers -> Processors] :
         ToBag(printed) = ToBag([n \in 1 .. Numbers |-> Result(share[n], n)])

\* The merged channel is closed at last, and main ends.
MainEnded == <>(pipe = "ended")
=============================================================================
