# Verification of recargadOS

TLA+ models, TLC runs and TLAPS proofs about `tp-2022-1c-recargadOS`, a small
distributed "operating system": Consolas send programs to a Kernel, which
schedules them on a CPU, which asks a Memoria for their pages. Four programs in
C, several threads each, talking over TCP. Paths are relative to `src/`.
Definitions keep the source's names, so they are in Spanish.

1. [Inventory](#inventory) – the system, its hard parts and what is correct
2. [Modules](#modules) – how state and actions correspond to the code
3. [Runs](#runs) – instances, bounds, fairness
4. [What the checks found](#what-the-checks-found)
5. [Proofs](#proofs)
6. [Not modelled](#not-modelled)
7. [Plan](#plan)

## Inventory

| component | code | state | operations | correct when |
|---|---|---|---|---|
| Kernel, planner | `kernel/src/main.c`, `kernel/src/utils/planificador.c` | queues NEW, READY, BLOCKED, SUSP-READY; four semaphores; list of consoles; estimates | accept a console (`main`), admit (`Aready`), dispatch and take back (`readyAexec`), I/O and suspension (`hilo_block`) | semaphores match queues; a PCB is in one place; the degree is respected; with SRT only a shorter PCB displaces the interrupted one, and a shorter one waits only for a known reason; every console is answered |
| CPU, cycle | `cpu/src/utils/ciclo_instruccion.c`, `cpu/src/servidor/` | PCB in execution, PC, flag of interrupts | receive a PCB, execute, receive an interrupt, answer | an answer per PCB; a process runs all its instructions and no more |
| CPU, MMU | `cpu/src/utils/mmu.c` | TLB, FIFO index, access clock | translate, add, replace, empty | a hit gives the frame Memoria would give |
| Memoria | `memoria/src/utils/server.c`, `memoria.c` | two queues of requests; page tables; frames; count and clock pointer per process | create, suspend and end a process; give a frame; read; write | a page holds what was last written in it; frames are not shared nor lost; the clock ends |
| Swap | `memoria/src/utils/swap.c` | a file per process | create, write, read, remove | (with Memoria) |
| Consola | `consola/src/` | none | parse a script, send it, wait | each NO_OP n is n instructions; the last EXIT is kept |
| Serialization, sockets, log | `static/src/` | none | pack, unpack, send, receive | what is read is what was written; a buffer is as long as what is written in it |

**Interaction.** Consola -> Kernel: one message with the program, one answer at
the end, on one connection. Kernel -> CPU: a connection per dispatched PCB, on
which the Kernel waits, and a connection per interrupt, on which it does not.
Kernel -> Memoria: a connection per request (create, suspend, end), with an
answer awaited except for *end*. CPU -> Memoria: a request per table, frame, read
and write, each awaited. In Memoria, the main thread puts requests in
`colaKernel` or `colaCPU`, served by one thread each.

What a process *is* goes a long way: script, instructions in a packet, PCB, a
packet to Memoria and back, a packet to the CPU at each burst, and from there
addresses that are walked through tables which Memoria knows by indices.

**Hard parts.** Inside the Kernel, four threads share four queues whose lengths
are mirrored in semaphores, incremented a moment after each push, with one
unlocked read. Between Kernel and CPU, interrupts race with the cycle they are
meant for. Inside Memoria, suspension and the clock work on the same entries
with a mutex that is released between steps, and the count of frames of a
process is kept apart from the entries it counts. The TLB of the CPU and the
tables of Memoria are two copies of one thing, and nobody tells the first of
the changes of the second. Packets are laid out by hand, sized by another
table, and received by one call of `recv`. There is no persistence and
no recovery: a peer that dies ends the system, so crashes are not modelled.
`PROJECT.json` lists each hazard at its line with the properties for it.

## Modules

| module | what it is |
|---|---|
| `Planificador` | the Kernel: threads, queues, semaphores, requests to Memoria, any answer the CPU may give |
| `CicloDeVida` | abstract specification of the Kernel: the seven-state diagram with a degree of multiprogramming |
| `TurnoSRT` | what SRT promises, in terms of the histories of Planificador |
| `CicloInstruccion` | the CPU: dispatch thread and interrupt thread, with ports as variables |
| `KernelCPU` | Planificador and CicloInstruccion together, running given programs |
| `Memoria` | Memoria: hiloKernel, hiloCPU, entries, frames, replacement, swap, with the Kernel and the CPU as its clients |
| `MMU` | the TLB of the CPU: FIFO and LRU, hits, emptying |
| `MemoriaVirtual` | Memoria and MMU together: hits that skip Memoria, misses that fill the TLB |
| `Guion` | from a script to instructions: operators |
| `Serializacion` | the layout of each structure, its size, and what is read back: operators |
| `TablasPaginas` | the two levels of tables of Memoria, their indices, and the arithmetic of the CPU |
| `CaminoDeDatos` | consoles, Kernel, CPU and Memoria exchanging the packets of Serializacion, with scripts of Guion and addresses through TablasPaginas |
| `MCPlanificador`, `MCTurnoSRT`, `MCKernelCPU`, `MCMemoria`, `MCMemoriaVirtual`, `MCCaminoDeDatos` | values of the constants for TLC |
| `PlanificadorProofs` | theorems about Planificador: types; places, semaphores, degree, consoles; the requests of the Kernel to Memoria; Planificador implements CicloDeVida |
| `TurnoSRTProofs` | theorems about TurnoSRT: who displaces, who waits, how far an estimate goes |
| `KernelCPUProofs` | KernelCPU implements Planificador; the end of programs with FIFO |
| `MemoriaVirtualProofs` | theorems about MemoriaVirtual: control, types, TLB and tables, order of the TLB, counts |
| `MemoriaVirtualDatosProofs` | theorems about what the frames and the swap files hold |
| `SerializacionProofs` | theorems about Serializacion and TablasPaginas |
| `CaminoDeDatosInv` | the inductive invariant of CaminoDeDatos, in three layers |
| `CaminoDeDatosTiposProofs` | its first layer: what each part holds and each packet carries |
| `CaminoDeDatosProofs` | its second and third layers: programs, places, tables and scripts |

### Planificador

Each thread is a program counter and one action per step another thread can
see; what a thread does between two of them is inside the action. Actions are
named for the function they come from (`map` in `PROJECT.json` has every line).

- `main`: `ManejarProceso` (receive, `iniciarPcb`, add the console),
  `IngresarANew` (push under `mutex_estado_new`), `PostNew`.
- `Aready`: `EsperaPcb`, `EsperaGrado`, `Elige` (the unlocked test),
  `PopSuspReady` or `PopNew` then `EstructurasCreadas`, `AgregaReady`,
  `InterrumpeAready` (SRT), `PostReadyAready`. `mutex_estado_new` is held from
  `PopNew` to `EstructurasCreadas`, so `IngresarANew` waits.
- `readyAexec`: `EsperaReady`, `PlanificaFIFO` or `PlanificaSRT`, `Despacha`, and
  one path for each answer: `VuelvePorIO`, `VuelvePorInterrupcion`,
  `VuelvePorExit` then `AvisaConsola` and `PostGradoExec`.
- `hilo_block`: `EsperaBlock`, `PopBlocked`, then the short path (`TerminaIO`...)
  or the suspension (`PideSuspender`, `Suspendido`, `PostGradoBlock`,
  `TerminaIOSuspendido`, `PostSusp`).
- `HiloKernel` is Memoria seen from here: it serves the requests in order.
- `CPUEjecutaIO`, `CPUEjecutaExit`, `CPUInterrumpida`: any answer, an interrupted
  one only when the Kernel sent an interrupt.

A PCB is its id. The Kernel allocates a new PCB each time one comes back from
the CPU and frees the one it sent; since one place holds the process at a time
(`CadaPcbEnUnLugar`, proved), `estimacionRafaga` is a function of the id. The
arithmetic keeps the types of C: the subtraction on preemption is modulo
`UINT32`, the average truncates, and the comparison of SRT rounds to a float of
`MANTISA` (`Flotante`). `ALFA` is a fraction. Popping an empty queue gives NULL
and a crash: the pops are guarded by a non-empty queue, and `SinPopVacio` says
the guard never stops a thread. Times of I/O only matter for the test of
suspension; how long a thread sleeps is not modelled.

### TurnoSRT

SRT has no single place in the code: `planificacionSRT` chooses, `Aready` and
`hilo_block` interrupt when they add a PCB, `ejecutarPCB` keeps the estimates and
`readyAexec` writes the id that the next choice looks for. TurnoSRT states what they
promise together, in terms of three histories of Planificador that no guard reads and the
code does not have: `interrumpido`, the PCB whose burst was the last to end, if
an interrupt ended it; `sinComparar`, those that were in ready when the head was
taken without comparing; `desbordadas`, those whose estimate wrapped around.

- `DesalojoJusto`: an interrupted PCB loses the CPU only to a strictly shorter one.
  It needs the id written by `Despacha`, the push of the interrupted PCB before the
  post, and a rounding that never inverts an order.
- `CortoEsperaConMotivo`: a shorter PCB waits in ready only for one of three reasons,
  each of which occurs: the head was taken uncompared after an I/O or an EXIT
  (`planificador.c:134-138`), its interrupt is on its way, or both estimates are one
  float. The first is what the code does instead of SRT: it is a history and not an
  exception of the model, and the PCBs it names are exactly those it passed over.
- `EstimacionAcotada`: estimates leave the range of what was configured and measured
  only by the subtraction of `planificador.c:366`, which wraps around.

### CicloDeVida

Processes go `inexistente -> new -> ready <-> exec -> exit`, `exec -> blocked ->
ready`, `blocked -> susp_blocked -> susp_ready -> ready`, with one in `exec` and at
most `Grado` in `ready`, `exec` and `blocked`. The refinement mapping is `estado` in
Planificador, read from the queues and from what the threads hold.

### CicloInstruccion and KernelCPU

`IniciaCiclo` wipes `hayInterrupcion`; `Ejecuta` is fetch, execute and `PC++`;
`Interrumpida`, `SigueCiclo` and `TerminaCiclo` are the branches after it; the answer
carries a time only for I/O (`ciclo_instruccion.c:48-61`). The flag
is set by `RecibeInterrupcion` at any moment. Past the end of a program `fetch`
reads whatever follows the array: `Leidas` gives any instruction there, and one
that is not valid ends the CPU. READ, WRITE and COPY are steps that do not
change the cycle. KernelCPU replaces the three CPU actions of Planificador by
these threads, and `CPUCumplePlanificador` (the specification `Spec` of
Planificador as a property) says the replacement is right.

### Memoria

`Pide...`, `Readmite`, `Despacha`, `Vuelve`, `Desbloquea` are the Kernel as
`PeticionesEnOrden` and `CicloDeVida` show it to Memoria: a suspended or ended
process does not run, *end* is not awaited. `CrearProceso`, `SwapeaEntradas`,
`ReseteaOcupados`, `TerminaSuspension`, `FinProceso` are hiloKernel, split where
suspension releases `mutex_entrada_segundo_nivel`. `Accede` is an instruction
that needs a page; `MarcoPresente`, `MarcoLibre`, `MarcoFueraDeMemoria`,
`PideVictima`, `RecorreClock` (a turn of the loop), `Reemplaza` are `obtenerMarco`;
`Lee` and `Escribe` use the frame. hiloCPU holds the mutex from `PideVictima` to
`Reemplaza`. `esperado` is a history variable: what the process wrote.

CLOCK-M as the code has it takes the first entry with no use, modified or not
(its two tests together are the one of CLOCK): `EsVictima` keeps both.
When no frame is free the search runs past `bitarray`; what follows is not
defined, so the model goes to `desborde` and stops there.

Abstractions: the two levels of tables are one function of the page; a page is
one datum; a suspension's swapping is one step, as nobody else touches its
entries under the mutex, and the process does not run.

### MMU and MemoriaVirtual

MMU has one action per function of `mmu.c` that changes the TLB: `AgregarTLB`,
`ActualizarTLB`, `VaciarTLB`. `tiempoAccesoGlobal` grows without end in the code;
only the order of the times matters, so after each access the times are numbered
again from 0. `orden` is a history variable, the pages in the order in which the
policy has to drop them (a hit of LRU moves its page to the end, `AlFinal`), kept
apart from times and index; `corrido` records that
the TLB was emptied with `indiceFIFO` in the middle, after which FIFO is not FIFO.

MemoriaVirtual conjoins each action of Memoria with what it does to the TLB:
`DespachaCPU` empties it if the process is another one, `AccedeFallo` is
Memoria's access for a page that is not in it, the three ways to get a frame
end in `AgregarTLB`, and `AccedeAcierto` is the access that Memoria never sees.
Two histories: `cargadoPor`, the process that each frame was loaded for, and
`perdida`, in which of the two known ways the data of a page may have been lost
so far. The properties are stated as far as `perdida` allows, so they say that
there is no third way.

### Guion, Serializacion, TablasPaginas and CaminoDeDatos

A line of a script is the instruction it spells. `leerInstrucciones` keeps the last
line only if it is EXIT; `ConsolaCae` are the scripts that end the console before
it connects. A buffer is a sequence of cells of four bytes; `armarPaqueteCon`
allocates `tamanioEstructura` cells and writes `serializarEstructura` in them, two
definitions as in the code, and keeps how much was written. `recibirPaquete` may
get only the first cells of a packet longer than `SEGMENTO`; the others are
`BASURA`. In TablasPaginas `crearTablas` appends the tables of a process to the
two shared lists; `Hay` and `Toma` are `list_get`.

CaminoDeDatos is the path of one process from console to frames, with all the
modules at work: a console sends (`ConsolaEnvia`), the Kernel makes a PCB
(`ManejarProceso`), asks for its tables (`PideCrear`, `CrearProceso`,
`RecibeTabla`), dispatches it (`Despacha`) and takes it back (`VuelveIO`,
`VuelveInterrumpido`, `VuelveExit`); the CPU gets the sizes of Memoria
(`PideTraduccion`), receives a PCB and executes (`Fetch`, `TerminaInstruccion`),
and walks the tables for each address (`ConsultaTabla`, `ConsultaMarco`,
`AccedeAMemoria`, answered by `ConsultaEnTabla`, `DaMarco`, `Lee`, `Escribe`).
What the other modules are about is nondeterministic here: which PCB is
dispatched next, whether an interrupt is seen after an instruction, which frame
a page gets. Suspension, which sends the same PCB packet, is left out. Where the
code has no defined outcome the run ends: `list_get` past a table ends Memoria,
and a fetch past the program or of a cell that did not arrive ends the CPU.

## Runs

Deadlock is checked in every run; the only states with nothing left to do have
an explicit stutter (`Terminado`, `NadaMas`, `CPUPerdida`, `Detenido`). CaminoDeDatos has no cycles, so
this check also shows that each of its runs ends in one of the ways of `Detenido`.

| run | instance | checks |
|---|---|---|
| planificador_fifo | FIFO, 3 processes, degree 2, 2 bursts before EXIT, I/Os below and above the maximum | `SemaforosCuentan`, `SinPopVacio`, `GradoContado`, `GradoRespetado`, `CadaPcbEnUnLugar`, `ConsolaDeCadaProceso`, `PeticionesEnOrden`, `CreacionEnOrdenDeLlegada`, `CumpleCicloDeVida` |
| planificador_srt | TurnoSRT: SRT, 3 processes, degree 3, one burst and EXIT, no suspension, estimates from 10, bursts of 8 and 13, `UINT32` 16, `MANTISA` 8, fair threads | `TypeOK`, `CadaPcbEnUnLugar`, `SemaforosCuentan`, `DesalojoJusto`, `CortoEsperaConMotivo`, `EstimacionAcotada`, `TodaConsolaAvisada` |
| kernelcpu_fifo | 3 programs (I/O with suspension, none, memory) | `ProgramaCompletoTermina`, `CPUCumplePlanificador`, `ProcesoTermina` |
| kernelcpu_srt | 2 programs, interrupts | `TypeOKCPU`, `CPUCumplePlanificador`, `CumpleCicloDeVida` |
| memoria_virtual | a process of 3 pages on 2 frames and one with none, CLOCK-M, TLB of 2, FIFO and LRU, 1 suspension each, a search that goes on | `TypeOK`, `ModificadaPresente`, `HayVictima`, `ReemplazoEnOrden`, `TLBIgualATabla`, `ReemplazoTermina` |
| memoria_virtual_datos | processes of 2 and 1 pages at once on 2 frames, 1 each, CLOCK, TLB of 2, LRU, 1 suspension each | `DatosConservados`, `AccesoPropio`, `TLBIgualATabla` |
| camino_de_datos | 2 consoles, 6 scripts, processes of 1 to 4 pages of 4 bytes, tables of 2 entries, segments of 20 cells | `ProgramaIntacto`, `EjecutaElGuion`, `IODelGuion`, `PaquetesExactos`, `PaginaPropia`, `SoloCaeFuera`, `AccesoEnElMarco` |
| planificador_suspe, kernelcpu_exit_interrumpido, memoria_suspension, memoria_tlb, memoria_marcos | violations, below | |

Suspension and a degree smaller than the number of processes are in planificador_fifo;
planificador_srt has what SRT adds, the choice, the interrupts and the estimates. The
theorems about Planificador's safety are for both algorithms, with suspension.

**Bounds.** `MaxProcesos` (consoles), `MaxRafagas` (bursts before a process must
EXIT), `MaxSuspensiones` and `MaxDesborde` (instructions fetched past a program's
end) are the only ones the code does not have. Three processes with degree two
give every thread of the Kernel something to do at once, and a queue of every
kind two elements. `UINT32` 16 and `MANTISA` 8 make estimates wrap around and
round within two bursts: in planificador_srt, from an estimate of 10, an interrupted burst of
8 leaves 2 and one of 13 wraps around to 13, an I/O leaves 9 or 11, and 11 and 13 are one
float; `COTA_ESTIMACION` 13 is the longest burst. The degree is three there, so that two
processes wait when the head is taken after an EXIT or an I/O. Three pages and a TLB of two entries make it replace
after hits in any order. The scripts of camino_de_datos reach both tables of a
process, one that is not full, an address past its end and one that is not
aligned; one has more instructions than a segment, one lacks EXIT, one has two (the first
ends the process unless it is interrupted), one ends in a newline; two consoles
make the tables of one process grow while the other's are walked, and its ids and indices differ. `SEGMENTO` (at least 8 cells, the fixed
fields, in one call) is what the code relies on and TCP does not promise. Two frames and three pages make the clock turn,
and the count of frames drift until there are none free.

**Fairness.** `FairSpec` of Planificador: each thread of the Kernel takes a step
while it can, Memoria serves its queue, the CPU answers. Each semaphore has one
waiter and the mutexes are held for a bounded time, so weak fairness is what the
operating system's scheduler gives. Nothing obliges a console to connect. With
`MaxRafagas` every process exits after a bounded number of bursts, that is,
programs are finite: KernelCPU has the programs instead of that bound.
`FairSpecMV`: hiloCPU goes on while it looks for a victim (`PasoDelClock`), with its mutex
held; nothing else has to run for the search to end.

**Mutants.** Next to each definition that a property depends on there is a
mutant of it (a missing post, a pop that only looks, a flag not cleared), named
in `PROJECT.json` with the property that finds it. Nothing else uses them.

## What the checks found

- *Suspension never happens* (`planificador_suspe`). `hilo_block` compares
  seconds with microseconds (`planificador.c:196-199`, `inicializacion.c:35`), so
  the process of the suspension test is not suspended.
- *EXIT interrupted* (`kernelcpu_exit_interrumpido`). The check of the flag comes
  before the test of the instruction (`ciclo_instruccion.c:31-39`), so an
  interrupt during EXIT queues the finished process again, to run past its
  program; during IO it drops the I/O. Only with SRT: with FIFO there are no
  interrupts and `ProgramaCompletoTermina` passes.
- *Clean pages of a suspended process* (`memoria_suspension`). A page that is not
  modified stays present when its process is suspended, in a frame that is given
  to another (`memoria.c:292-308`, `server.c:91-92`). The same happens to a clean
  victim of a replacement (`memoria.c:227-242`).
- *TLB hit on a page that left* (`memoria_tlb`). Nothing removes the entry of a page
  that was replaced (`mmu.c:161-164`): the hit writes in the frame of another page
  of the process, even when every page is modified and none is suspended.
- *Too many frames* (`memoria_marcos`). The count goes down on a modified victim
  (`memoria.c:239`) and the process takes a frame beyond its share.

`memoria_virtual_datos` delimits the memory findings: data are lost only by a clean
page that leaves its frame or by a TLB entry that outlives its page
(`DatosConservados`); the second never reaches a frame of another process
(`AccesoPropio`), because the TLB is emptied at each change of process and always
agrees with the tables about the number of the frame (`TLBIgualATabla`).

What `camino_de_datos` shows has conditions that the code leaves to its user:
scripts end in EXIT without a newline, PCBs fit in what one `recv` returns,
addresses are multiples of four and inside the process. With them the program
that runs is the program of the script; without them a console falls, a process
runs past its end, or Memoria falls for all of them (`SoloCaeFuera`).

## Proofs

All with TLAPS, for every value of the constants under the named assumptions of
each module: `CotasAssumption`, `TiemposAssumption`, `EstimacionAssumption` of
Planificador (any number of processes, degree, algorithm, bursts and I/O times),
`CotaAssumption` and `MantisaAssumption` of TurnoSRT (a bound of the first estimate and of the
bursts, and an even `MANTISA`: that of a float is a power of two),
`ProgramasAssumption` of KernelCPU (any programs that end in their only EXIT, as the
test scripts do; camino_de_datos has scripts without one, and their processes run past their end),
`MemoriaAssumption` and `TLBAssumption` of Memoria and MMU (any number of
processes, pages, frames and entries, and any of the algorithms), and
`TablasAssumption` of TablasPaginas (any sizes of page and table), and of CaminoDeDatos
`CaminoAssumption` (the fixed fields of a packet, eight cells, arrive in one `recv`),
`ArgumentosAssumption` (the parameters of a line and the size given to a console are
unsigned numbers; nothing else is assumed of a script) and `NuloAssumption` (NULL is
not a PCB).

`PlanificadorProofs`: `TipoCorrecto`, `Spec => []TypeOK`. The interesting leaves
are arithmetic: the average of two uint32_t is one (`PromedioTipo`), the
subtraction wraps (`RestanteTipo`). It also has the lemmas on lists: what
`Append`, `Tail` and `RemoveAt` do to lengths and to the number of times a process
appears (`VecesAlAgregar`, `VecesEnCola`, `VecesAlRemover`).

The inductive invariant of Planificador, in the same module:

    IInv == TypeOK /\ SemaforosCuentan /\ GradoContado /\ SinPopVacio /\ ElegidoEnReady
            /\ CadaPcbEnUnLugar /\ ConsolaDeCadaProceso /\ FinalizadasConectadas

`CadaPcbEnUnLugar` alone is not inductive: with SRT the PCB chosen by
`PlanificaSRT` is still in the list when `Despacha` removes it, and if it were not
the thread would hold a process that is somewhere else; `ElegidoEnReady` says it
is there. In turn `SemaforosCuentan` needs that `Despacha` removes exactly one
element (SRT) or none (FIFO), which is `CadaPcbEnUnLugar` and `ElegidoEnReady`
(lemma `DespachaQuita`). `SinPopVacio` rests on the tokens: Aready holds one token
of two queues and the unlocked test is stable, since only Aready pops.
`ConsolaDeCadaProceso` needs the place of the PCB (a process in `avisa_consola`
did not end yet) and `FinalizadasConectadas`. From `Invariante` follow
`PcbEnUnLugar`, `SemaforosCorrectos`, `NingunPopVacio`, `ConsolaEncontrada`,
`GradoSinFugas` and, counting, `GradoCorrecto`.

And `MemoriaEnOrden` and `LlegadaRespetada`, there too. Three threads
ask Memoria, one of them without waiting, so what is queued has to be tied to who
is where. `PedidosInv`, preserved given `IInv` (`PedidosCorrectos`), says that each request
in the queue is one its thread still waits for or the end of a process that is on
its way out (`PedidosDebidos`); a process has one at most; an answer is for a
thread that waits; and the tables are not created exactly while the process is not
connected, in NEW, or with Aready (`TablasSegunLugar`). A second request of a process
would need it in two places, which `CadaPcbEnUnLugar` excludes. The order of
arrival needs NEW to be sorted by id, with the one `main` is about to push after
all the others (`OrdenInv` of that module), and that Aready's is the least of
those without tables.

Last in that module, `RefinaCicloDeVida`, the refinement. `EstadosPorLugar`
says that under the mapping `estado` a process is in the state of the one place that
`CadaPcbEnUnLugar` says holds it; each action then moves at most one process, along an
edge of the diagram, and `GradoCorrecto` gives the guard of admission and of
readmission. A step that passes a PCB between two hands of the same state is a
stutter (`EnElMismoLugar`).

`TurnoSRTProofs`: `TurnoCorrecto`, from which the three properties of TurnoSRT follow
(`DesalojoSiempreJusto`, `CortoSiempreConMotivo`, `EstimacionSiempreAcotada`). None of them is
inductive. `DesalojoJusto` needs `Competidor`: from its interrupt until somebody is
dispatched the interrupted PCB is in ready and is the one `planificacionSRT` looks
for, which needs `UltimoAnotado` (the id written is that of the PCB in the CPU) and the
invariant of Planificador (what `Despacha` takes out of ready is only the chosen one).
`DesalojoJusto` and `CortoEsperaConMotivo` are kept as floats, which is how the code compares
(`DesalojoJustoFlotante`, `MotivoFlotante`), and become statements about uint32_t by
`FlotanteMonotono`: the conversion never inverts an order. That lemma is proved
from the rounding itself, for any `MANTISA`: in one binade rounding is monotone
(`RedondeoMonotono`), and none crosses the first number of the next (`RedondeoAcotado`,
`Binadas`). A PCB that arrives keeps `MotivoFlotante` because its thread is about to
interrupt (`TurnoLlega`); a process that connects changes an estimate that nobody
compares (`TurnoConecta`). The theorems say nothing of who should go first after an I/O
or an EXIT: there the code takes the head.

`KernelCPUProofs`: the CPU of CicloInstruccion put in the place of the three actions
that stand for it in Planificador. `InvCPU` (`ConjuntoCorrecto`): the cycle works on the PCB the
Kernel waits for; a process has run no more bursts than instructions, so the bound
on bursts of Planificador is the length of the program; the flag, once wiped, is up
only for an interrupt that the Kernel sent. From it `CPUImplementaPlanificador`
(`SpecKC` implements `Spec`, so every safety theorem of Planificador holds with the
real CPU) and `TipoDeCPU`. `CompletoTerminaConFIFO` has the hypothesis
`ALGORITMO_PLANIFICACION = "FIFO"`, and it is needed: with SRT the run
`kernelcpu_exit_interrumpido` refutes the property. Its invariant `InvFIFO` says that no
interrupt was ever sent, and that a process whose program was executed to the end has ended,
is ending, or has its EXIT in the cycle or in the answer.

`MemoriaVirtualProofs`: an inductive invariant of SpecMV in layers, each
preserved given those before it.

- `ControlInv` (`ControlCorrecto`): who asks what. A process has one request in
  `colaKernel`, the one of its phase; the process in the CPU is active, its
  access is its own, and `PCB_ACTUAL` was created.
- `DatosInv` (`DatosCorrectos`): types; `ModificadaPresente`; the entries of the
  TLB have the times from 0 to their number less one, each once (`TLBInv`), without which
  LRU would not find the one to drop; a page being looked for is not present, and
  the victim is (`BusquedaInv`). From it, `TipoMemoria` and `ModificadaSiemprePresente`.
- `CoincideInv` (`TLBSiempreIgual`): `TLBIgualATabla`, with the pages of the TLB
  being of `PCB_ACTUAL` and a page being looked for not among them: without the
  second, a page that gets another frame would leave its old entry behind.
- `OrdenInv` (`OrdenCorrecto`): the history `orden` is the pages of the TLB by
  time of last access (LRU), or from `indiceFIFO` on and round (FIFO), unless the
  TLB was emptied with the index in the middle; an index that is not 0 means a
  full TLB. It needs that a page is in the TLB once, which is `CoincideInv` again: a page
  that is added was a miss. From it, `ReemplazoSiempreEnOrden`: the entry that the
  code replaces, the one at the index or the one of least time, is that of the
  first page of `orden`.
- `OcupadosInv` (`SiempreHayVictima`): a process that may run has at least
  `marcosOcupados` pages in frames. `HayVictima` alone, which speaks of
  active and blocked processes, is not inductive: a suspended one comes back with
  the count it left with, so it has to be right from `ReseteaOcupados`, which puts it
  at 0, until the process lives again.
  The argument counts sets: a replacement takes a page from `Presentes` and adds one.

`MemoriaVirtualDatosProofs`: `ContenidoInv` (`ContenidoCorrecto`), on top of those layers, in two parts
because the two ways of losing data break different things.

- While no clean page left its frame (`LimpiaInv`): a frame is taken exactly if
  a page of a process that has its frames is in it, it was loaded for that process,
  and no two pages are in one frame (`MarcosInv`); the entries of the TLB, stale ones
  included, and the access in course are of frames that the process of the TLB loaded
  (`AccesoCargado`), which gives `AccesoSiemprePropio`; between the steps of a
  suspension the process has no page present (`SuspensionLimpia`), so
  `ReseteaOcupados` loses nothing.
- While no stale entry was used either (`GuardadasInv`): each page holds what its
  process wrote last, in its frame if present and in the swap file if not, and the
  frame of the access in course is still that of its page. With the first part,
  `DatosSeConservan`.

Processes not created yet wrote nothing and have no page (`NuevosInv`): a creation
writes zeros. The hypotheses of the two parts are values of the history `perdida`,
which states reach both with and without (`memoria_suspension` and `memoria_tlb`
are the ways it grows), so neither part is vacuous nor always true.

`SerializacionProofs`: `ProcesoIntacto`, `PCBIntacto` and `IOIntacta` say that a
structure with a program of any length is written in exactly the cells that were
allocated, and read back the same: the instructions are three cells each
(`InstruccionesEnCeldas`) and are found behind any prefix (`PCBEnCeldas`).
`RecorridoCorrecto` is the arithmetic of addresses: division in pages and tables
agrees with the tables that `crearTablas` makes, whose last one may not be full.

`CaminoDeDatosTiposProofs` and `CaminoDeDatosProofs`: every invariant of camino_de_datos,
for any consoles, scripts, sizes and bursts. None of them is inductive, and what
each one needs is about the other parts of the system, so the invariant
(`CaminoDeDatosInv`) has three layers, each preserved given those before it.

- `InvTipos` (`TiposCorrectos`): each connection carries a packet built from what it
  carries (`LlevaPCB` and the like), of the phase of the one that waits for it
  (`Dispatch`, `Consultas`); the requests of the Kernel to Memoria hold at most one
  creation, of the PCB whose answer the Kernel waits for (`Cola`). A packet may be cut by
  `recv`, so a PCB is received with as many instructions as it was sent with, and with
  the same ones only if it fits (`RecibePCB`): this is where `SEGMENTO` enters. From
  it, `PaquetesSiempreExactos` and `AccesosEnElMarco`.
- `InvProcesos` (`ProcesosCorrectos`): which process is where. Ids, first level
  tables and creations agree because the Kernel asks for one at a time
  (`Numeracion`); the tables of a process are those of its size and all its own, since
  the lists only grow (`TablasHechas`); a process is in ready, blocked or the CPU, and
  once (`UnSitio`); it has its connection and its swap file until it ends
  (`Conectadas`), without which `PaginaPropia` would fail in the step that removes a
  file; a PCB has the size and the instructions of its console wherever it goes
  (`Buenos`); and the two queries of a walk go through its own tables (`Recorrido`).
  From it, `SoloCaePorFuera`, `PaginasPropias` and `ProgramaSiempreIntacto`.
- `InvGuiones` (`GuionesCorrectos`): the PC of a PCB is the number of instructions that
  its process executed, except in the CPU between fetch and the end of the
  instruction, where it is one less (`AlDia`); the process of an I/O has just executed
  it (`Bloqueos`); an answer to a console is of a process that executed an EXIT and has
  no connection left, so nobody executes it again (`Finales`). From it,
  `IOSiempreDelGuion` and `EjecutaSuGuion`.

`EjecutaElGuion` says that the script was executed up to an EXIT and not up to the
first one: it would be false with an EXIT that is interrupted, which is run past
(see above). For a script with one EXIT, its last line, both say that all of it was executed.

`obtenerInstrucciones` is a recursive function over the lines of a script. That it gives
a list of instructions (`InstruccionesTipo`) is proved without the library's induction
theorems: the set of lengths at which it would fail has a least element
(`Minimo`, from `WFMin`), and the step before it did not fail.

Only model-checked: liveness (`TodaConsolaAvisada`, `ProcesoTermina`,
`ReemplazoTermina`), out of the prover's reach. What `obtenerInstrucciones` makes of
a script, beyond its type, is taken from its definition: `Programa` is that definition, and
the theorems say that what runs is what it gives.

## Not modelled

- Sockets: errors of connection (each ends the process that meets it), and
  descriptors that are never closed (`server.c:115`). A packet that is cut is
  modelled by what the receiver reads, not by what is left in the socket.
- Swap: errors of the file system, which the code does not look at.
- The consoles' arguments, the configuration files and the log.
- Use of memory that was freed (a log after a push): only the log sees it.
- Delays: a sleep is a step that may be taken at any time.
- Data below a page: MemoriaVirtual follows what a page holds, CaminoDeDatos the
  addresses of its bytes; a datum that straddles two frames is not followed.
- The tests of `*/tests/` are the template's example and test no code of it.

## Plan

Done: all the modules above and the proofs of the last section, which state every
safety property that a passing run checks. Left:

1. `Servidor` – atenderPeticion and the two queues of Memoria with their
   semaphores, shown to be the ordered service that Planificador assumes.
