---------------------- MODULE MemoriaVirtualDatosProofs ----------------------
(***************************************************************************)
(* What the frames hold: while no clean page left its frame, every frame   *)
(* taken is of one page of one process and only that process gets to it;   *)
(* and until an entry of the TLB outlives its page, every page holds what  *)
(* its process wrote last.                                                 *)
(***************************************************************************)
EXTENDS MemoriaVirtualProofs

-----------------------------------------------------------------------------
(* The inductive invariant *)

\* Page i of process p is in frame m.
Ocupa(p, i, m) == entradas[p][i].presencia /\ entradas[p][i].marco = m

\* The frames that are taken are those of the pages that are present, ...
MarcosTomados ==
    \A m \in Marcos :
        m \in bitarray <=> \E p \in ConMarcos : \E i \in Paginas(p) : Ocupa(p, i, m)

\* ... each was loaded with a page of that process, ...
MarcosCargados ==
    \A p \in ConMarcos : \A i \in Paginas(p) : \A m \in Marcos :
        Ocupa(p, i, m) => cargadoPor[m] = p

\* ... and no other page of it is there.
PaginasSeparadas ==
    \A p \in ConMarcos : \A i, j \in Paginas(p) : \A m \in Marcos :
        Ocupa(p, i, m) /\ Ocupa(p, j, m) => i = j

\* The entries of the TLB, even those of pages that left, and the access that
\* is being served are of frames the process of the TLB loaded.
AccesoCargado ==
    /\ \A k \in 1..Len(listaTLB) : cargadoPor[listaTLB[k].marco] = PCB_ACTUAL
    /\ pcCPU = "acceso" => cargadoPor[marco] = consulta.id

\* Between the steps of a suspension, the process has no page present.
SuspensionLimpia ==
    pcKernel # "espera" =>
        \A i \in Paginas(colaKernel[1].id) : ~entradas[colaKernel[1].id][i].presencia

MarcosInv ==
    /\ cargadoPor \in [Marcos -> Procesos \union {NULO}]
    /\ MarcosTomados /\ MarcosCargados /\ PaginasSeparadas

LimpiaInv == "limpia" \notin perdida => MarcosInv /\ AccesoCargado /\ SuspensionLimpia

\* A process that is not created yet has no page present and wrote nothing.
NuevosInv ==
    \A p \in Procesos : fase[p] \in {"nuevo", "creando"} =>
        \A i \in Paginas(p) : ~entradas[p][i].presencia /\ esperado[p][i] = "0"

\* Each page of a process that was created and did not end holds what it wrote
\* last, and the access that is being served is of the frame of its page.
PaginasGuardadas ==
    \A p \in Procesos : fase[p] \notin {"nuevo", "creando", "fin"} =>
        \A i \in Paginas(p) :
            /\ \A m \in Marcos : Ocupa(p, i, m) => esperado[p][i] = memoria[m]
            /\ ~entradas[p][i].presencia => esperado[p][i] = swap[p][i]

AccesoVigente == pcCPU = "acceso" => Ocupa(consulta.id, consulta.pagina, marco)

GuardadasInv == perdida = {} => PaginasGuardadas /\ AccesoVigente

-----------------------------------------------------------------------------
(* Processes that still have their frames *)

\* A request more, or an answer to CREAR or SUSP, leaves them as they were.
LEMMA ConMarcosPide ==
    ASSUME ControlInv, NEW p \in Procesos, NEW n \in Fases,
           NEW c \in {"CREAR", "SUSP", "FIN"}, c = "FIN" <=> n = "fin",
           fase[p] # "fin", Pide(c, p, n)
    PROVE  ConMarcos' = ConMarcos
<1> DEFINE r == [codigo |-> c, id |-> p]
<1>1. colaKernel' = Append(colaKernel, r) /\ fase' = [fase EXCEPT ![p] = n]
  BY DEF Pide
<1>2. r \in Peticiones
  BY DEF Peticiones
<1>3. colaKernel \in Seq(Peticiones) /\ fase \in [Procesos -> Fases]
  BY DEF ControlInv, TipoControl
<1> HIDE DEF r
<1>4. /\ Len(colaKernel) \in Nat /\ DOMAIN colaKernel = 1..Len(colaKernel)
      /\ colaKernel' \in Seq(Peticiones) /\ Len(colaKernel') = Len(colaKernel) + 1
      /\ DOMAIN colaKernel' = 1..Len(colaKernel) + 1
      /\ \A k \in 1..Len(colaKernel) : colaKernel'[k] = colaKernel[k]
      /\ colaKernel'[Len(colaKernel) + 1] = r
  <2>1. /\ colaKernel' \in Seq(Peticiones) /\ Len(colaKernel') = Len(colaKernel) + 1
        /\ \A k \in 1..Len(colaKernel) : colaKernel'[k] = colaKernel[k]
        /\ colaKernel'[Len(colaKernel) + 1] = r
    BY <1>1, <1>2, <1>3, AppendProperties
  <2> QED  BY <1>3, <2>1, ListaPropiedades
<1>5. ASSUME NEW q \in Procesos, q # p
      PROVE  q \in ConMarcos' <=> q \in ConMarcos
  <2> DEFINE f == [codigo |-> "FIN", id |-> q]
  <2>1. f # r /\ fase'[q] = fase[q]
    BY <1>1, <1>3, <1>5 DEF r
  <2> HIDE DEF f
  <2>2. (\E i \in DOMAIN colaKernel' : colaKernel'[i] = f)
           <=> (\E i \in DOMAIN colaKernel : colaKernel[i] = f)
    BY <1>4, <2>1
  <2> QED  BY <2>1, <2>2 DEF ConMarcos, f
<1>6. p \in ConMarcos
  BY DEF ConMarcos
<1>7. p \in ConMarcos'
  <2>1. fase'[p] = n
    BY <1>1, <1>3
  <2>2. n = "fin" => \E i \in DOMAIN colaKernel' : colaKernel'[i] = [codigo |-> "FIN", id |-> p]
    BY <1>4 DEF r
  <2> QED  BY <2>1, <2>2 DEF ConMarcos
<1>8. ConMarcos' \subseteq Procesos /\ ConMarcos \subseteq Procesos
  BY DEF ConMarcos
<1> QED  BY <1>5, <1>6, <1>7, <1>8

\* Serving a request that is not the end of its process leaves the set of
\* processes with frames as it was (server.c:66-118).
LEMMA ConMarcosAtiende ==
    ASSUME ControlInv, colaKernel # <<>>, colaKernel' = Tail(colaKernel),
           NEW n \in Fases, n # "fin", colaKernel[1].codigo # "FIN",
           fase' = [fase EXCEPT ![colaKernel[1].id] = n]
    PROVE  ConMarcos' = ConMarcos
<1> DEFINE p == colaKernel[1].id
<1>1. /\ Len(colaKernel) \in Nat /\ Len(colaKernel) >= 1
      /\ DOMAIN colaKernel = 1..Len(colaKernel) /\ DOMAIN colaKernel' = 1..Len(colaKernel)-1
      /\ \A k \in 1..Len(colaKernel)-1 : colaKernel'[k] = colaKernel[k + 1]
      /\ colaKernel[1] \in Peticiones
  BY ListaPropiedades DEF ControlInv, TipoControl
<1>2. p \in Procesos /\ fase[p] # "fin" /\ fase \in [Procesos -> Fases]
  BY CabezaAjena, <1>1 DEF ControlInv, TipoControl, Peticiones
<1>3. ASSUME NEW q \in Procesos, q # p
      PROVE  q \in ConMarcos' <=> q \in ConMarcos
  <2> DEFINE f == [codigo |-> "FIN", id |-> q]
  <2>1. f # colaKernel[1] /\ fase'[q] = fase[q]
    BY <1>2, <1>3
  <2> HIDE DEF f
  <2>2. (\E i \in DOMAIN colaKernel' : colaKernel'[i] = f)
           <=> (\E i \in DOMAIN colaKernel : colaKernel[i] = f)
    <3>1. ASSUME NEW i \in DOMAIN colaKernel, colaKernel[i] = f
          PROVE  i - 1 \in DOMAIN colaKernel' /\ colaKernel'[i - 1] = f
      <4>1. i # 1
        BY <2>1, <3>1
      <4>2. i - 1 \in 1..Len(colaKernel)-1 /\ (i - 1) + 1 = i
        BY <1>1, <4>1
      <4>3. colaKernel'[i - 1] = colaKernel[(i - 1) + 1]
        BY <1>1, <4>2
      <4> QED  BY <1>1, <3>1, <4>2, <4>3
    <3>2. ASSUME NEW i \in DOMAIN colaKernel', colaKernel'[i] = f
          PROVE  i + 1 \in DOMAIN colaKernel /\ colaKernel[i + 1] = f
      BY <1>1, <3>2
    <3> QED  BY <3>1, <3>2
  <2> QED  BY <2>1, <2>2 DEF ConMarcos, f
<1>4. fase'[p] # "fin"
  BY <1>2
<1> HIDE DEF p
<1>5. p \in ConMarcos /\ p \in ConMarcos'
  BY <1>2, <1>4 DEF ConMarcos
<1>6. ConMarcos' \subseteq Procesos /\ ConMarcos \subseteq Procesos
  BY DEF ConMarcos
<1>7. \A q \in Procesos : q \in ConMarcos' <=> q \in ConMarcos
  BY <1>3, <1>5
<1> QED  BY <1>6, <1>7

\* FIN served: its process is not one of them any more.
LEMMA ConMarcosFin ==
    ASSUME ControlInv, FinProceso
    PROVE  /\ colaKernel[1].id \in ConMarcos
           /\ ConMarcos' = ConMarcos \ {colaKernel[1].id}
<1> DEFINE p == colaKernel[1].id
<1>1. /\ colaKernel # <<>> /\ colaKernel' = Tail(colaKernel) /\ fase' = fase
      /\ Head(colaKernel).codigo = "FIN"
  BY DEF FinProceso, Cabeza, varsProc
<1>2. /\ Len(colaKernel) \in Nat /\ Len(colaKernel) >= 1
      /\ DOMAIN colaKernel = 1..Len(colaKernel) /\ DOMAIN colaKernel' = 1..Len(colaKernel)-1
      /\ \A k \in 1..Len(colaKernel)-1 : colaKernel'[k] = colaKernel[k + 1]
      /\ \A k \in 1..Len(colaKernel) : colaKernel[k] \in Peticiones
      /\ Head(colaKernel) = colaKernel[1]
  BY <1>1, ListaPropiedades DEF ControlInv, TipoControl
<1>3. /\ p \in Procesos /\ fase[p] = "fin" /\ colaKernel[1] = [codigo |-> "FIN", id |-> p]
  BY <1>1, <1>2 DEF ControlInv, ColaKernelInv, Peticiones
<1>4. \A i \in DOMAIN colaKernel' : colaKernel'[i].id # p
  <2> TAKE i \in DOMAIN colaKernel'
  <2>1. i + 1 \in 1..Len(colaKernel) /\ i + 1 # 1 /\ colaKernel'[i] = colaKernel[i + 1]
    BY <1>2
  <2> QED  BY <1>2, <2>1 DEF ControlInv, ColaKernelInv
<1>5. p \in ConMarcos
  BY <1>2, <1>3 DEF ConMarcos
<1>6. p \notin ConMarcos'
  BY <1>1, <1>3, <1>4 DEF ConMarcos
<1>7. ASSUME NEW q \in Procesos, q # p
      PROVE  q \in ConMarcos' <=> q \in ConMarcos
  <2> DEFINE f == [codigo |-> "FIN", id |-> q]
  <2>1. f # colaKernel[1]
    BY <1>7
  <2> HIDE DEF f
  <2>2. (\E i \in DOMAIN colaKernel' : colaKernel'[i] = f)
           <=> (\E i \in DOMAIN colaKernel : colaKernel[i] = f)
    <3>1. ASSUME NEW i \in DOMAIN colaKernel, colaKernel[i] = f
          PROVE  i - 1 \in DOMAIN colaKernel' /\ colaKernel'[i - 1] = f
      <4>1. i # 1
        BY <2>1, <3>1
      <4>2. i - 1 \in 1..Len(colaKernel)-1 /\ (i - 1) + 1 = i
        BY <1>2, <4>1
      <4>3. colaKernel'[i - 1] = colaKernel[(i - 1) + 1]
        BY <1>2, <4>2
      <4> QED  BY <1>2, <3>1, <4>2, <4>3
    <3>2. ASSUME NEW i \in DOMAIN colaKernel', colaKernel'[i] = f
          PROVE  i + 1 \in DOMAIN colaKernel /\ colaKernel[i + 1] = f
      BY <1>2, <3>2
    <3> QED  BY <3>1, <3>2
  <2> QED  BY <1>1, <2>2 DEF ConMarcos, f
<1>8. ConMarcos' \subseteq Procesos /\ ConMarcos \subseteq Procesos
  BY DEF ConMarcos
<1> HIDE DEF p
<1> QED  BY <1>5, <1>6, <1>7, <1>8 DEF p

\* The steps of the Kernel.
LEMMA ConMarcosKernel ==
    ASSUME ControlInv, KernelMV
    PROVE  /\ ConMarcos' = ConMarcos
           /\ \A p \in Procesos :
                 /\ fase'[p] \in {"nuevo", "creando"} => fase[p] \in {"nuevo", "creando"}
                 /\ fase[p] \in {"nuevo", "creando", "fin"} => fase'[p] \in {"nuevo", "creando", "fin"}
<1>1. fase \in [Procesos -> Fases] /\ ejecutando \in Procesos \union {NULO}
  BY DEF ControlInv, TipoControl
<1>2. ASSUME NEW p \in Procesos, PideCrear(p) \/ PideSuspender(p) \/ PideFin(p)
      PROVE  /\ ConMarcos' = ConMarcos
             /\ \A q \in Procesos :
                   /\ fase'[q] \in {"nuevo", "creando"} => fase[q] \in {"nuevo", "creando"}
                   /\ fase[q] \in {"nuevo", "creando", "fin"}
                        => fase'[q] \in {"nuevo", "creando", "fin"}
  <2>1. PICK c \in {"CREAR", "SUSP", "FIN"}, n \in Fases :
           /\ Pide(c, p, n) /\ (c = "FIN" <=> n = "fin")
           /\ \/ fase[p] = "nuevo" /\ n = "creando"
              \/ fase[p] \notin {"nuevo", "creando", "fin"} /\ n \in {"suspendiendo", "fin"}
    <3>1. CASE PideCrear(p)
      BY <3>1 DEF PideCrear, Fases
    <3>2. CASE PideSuspender(p)
      BY <3>2 DEF PideSuspender, Fases
    <3>3. CASE PideFin(p)
      <4>1. fase[p] = "activo" /\ Pide("FIN", p, "fin")
        BY <3>3, MemoriaAssumption DEF PideFin, ControlInv, EjecutandoInv
      <4> QED  BY <4>1 DEF Fases
    <3> QED  BY <1>2, <3>1, <3>2, <3>3
  <2>2. ConMarcos' = ConMarcos
    BY <2>1, ConMarcosPide
  <2>3. fase' = [fase EXCEPT ![p] = n]
    BY <2>1 DEF Pide
  <2> QED  BY <1>1, <2>1, <2>2, <2>3
<1>3. ASSUME NEW p \in Procesos, NEW n \in Fases, fase' = [fase EXCEPT ![p] = n],
             fase[p] \notin {"nuevo", "creando", "fin"}, n \notin {"nuevo", "creando", "fin"},
             UNCHANGED colaKernel
      PROVE  /\ ConMarcos' = ConMarcos
             /\ \A q \in Procesos :
                   /\ fase'[q] \in {"nuevo", "creando"} => fase[q] \in {"nuevo", "creando"}
                   /\ fase[q] \in {"nuevo", "creando", "fin"}
                        => fase'[q] \in {"nuevo", "creando", "fin"}
  <2>1. \A q \in Procesos : fase'[q] = IF q = p THEN n ELSE fase[q]
    BY <1>1, <1>3
  <2>2. ConMarcos' = ConMarcos
    BY <1>3, <2>1 DEF ConMarcos
  <2> QED  BY <1>3, <2>1, <2>2
<1>4. ASSUME NEW p \in Procesos, Readmite(p) \/ Desbloquea(p)
      PROVE  fase' = [fase EXCEPT ![p] = "activo"] /\ fase[p] \in {"suspendido", "bloqueado"}
             /\ UNCHANGED colaKernel
  BY <1>4 DEF Readmite, Desbloquea, varsKernel
<1>5. CASE \E p \in Procesos : DespachaCPU(p)
  BY <1>5 DEF DespachaCPU, Despacha, varsKernel, ConMarcos
<1>6. CASE Vuelve
  <2>1. PICK n \in {"activo", "bloqueado"} : fase' = [fase EXCEPT ![ejecutando] = n]
    BY <1>6 DEF Vuelve
  <2>2. ejecutando \in Procesos /\ fase[ejecutando] = "activo" /\ UNCHANGED colaKernel
    BY <1>1, <1>6 DEF Vuelve, varsKernel, ControlInv, EjecutandoInv
  <2> QED  BY <2>1, <2>2, <1>3 DEF Fases
<1>7. CASE \E p \in Procesos : Readmite(p) \/ Desbloquea(p)
  BY <1>7, <1>3, <1>4 DEF Fases
<1> QED  BY <1>2, <1>5, <1>6, <1>7 DEF KernelMV

-----------------------------------------------------------------------------
(* The frames, through what each step does to who is in them *)

\* No page comes or goes.
LEMMA MarcosQuedan ==
    ASSUME MarcosInv, ConMarcos' = ConMarcos, UNCHANGED <<bitarray, cargadoPor>>,
           \A q \in Procesos : \A j \in Paginas(q) : \A m \in Marcos :
              Ocupa(q, j, m)' <=> Ocupa(q, j, m)
    PROVE  MarcosInv'
<1>1. ConMarcos \subseteq Procesos
  BY DEF ConMarcos
<1>2. MarcosTomados'
  BY <1>1 DEF MarcosInv, MarcosTomados
<1>3. MarcosCargados'
  BY <1>1 DEF MarcosInv, MarcosCargados
<1>4. PaginasSeparadas'
  BY <1>1 DEF MarcosInv, PaginasSeparadas
<1> QED  BY <1>2, <1>3, <1>4 DEF MarcosInv

\* A page comes to a frame that was free.
LEMMA MarcoEntra ==
    ASSUME MarcosInv, ConMarcos' = ConMarcos,
           NEW p \in ConMarcos, NEW i \in Paginas(p), NEW n \in Marcos,
           n \notin bitarray, ~entradas[p][i].presencia,
           bitarray' = bitarray \union {n}, cargadoPor' = [cargadoPor EXCEPT ![n] = p],
           \A q \in Procesos : \A j \in Paginas(q) : \A m \in Marcos :
              Ocupa(q, j, m)' <=> IF q = p /\ j = i THEN m = n ELSE Ocupa(q, j, m)
    PROVE  MarcosInv'
<1>1. ConMarcos \subseteq Procesos /\ p \in Procesos
  BY DEF ConMarcos
<1>2. \A m \in Marcos : ~Ocupa(p, i, m)
  BY DEF Ocupa
<1>3. cargadoPor \in [Marcos -> Procesos \union {NULO}]
  BY DEF MarcosInv
<1>4. \A q \in ConMarcos : \A j \in Paginas(q) : ~Ocupa(q, j, n)
  BY DEF MarcosInv, MarcosTomados
<1>5. MarcosTomados'
  BY <1>1, <1>2 DEF MarcosInv, MarcosTomados
<1>6. MarcosCargados'
  BY <1>1, <1>3, <1>4 DEF MarcosInv, MarcosCargados
<1>7. PaginasSeparadas'
  BY <1>1, <1>4 DEF MarcosInv, PaginasSeparadas
<1>8. cargadoPor' \in [Marcos -> Procesos \union {NULO}]
  BY <1>1, <1>3
<1> QED  BY <1>5, <1>6, <1>7, <1>8 DEF MarcosInv

\* Page i of p comes to frame n, and page v leaves it.
Sustituye(p, i, v, n) ==
    \A q \in Procesos : \A j \in Paginas(q) : \A m \in Marcos :
        Ocupa(q, j, m)' <=> IF q = p /\ j = i THEN m = n
                            ELSE Ocupa(q, j, m) /\ ~(q = p /\ j = v)

\* A page takes the frame of one that leaves.
LEMMA MarcoCambia ==
    ASSUME MarcosInv, ConMarcos' = ConMarcos,
           NEW p \in ConMarcos, NEW i \in Paginas(p), NEW v \in Paginas(p), NEW n \in Marcos,
           Ocupa(p, v, n), v # i, ~entradas[p][i].presencia,
           bitarray' = bitarray, cargadoPor' = [cargadoPor EXCEPT ![n] = p],
           Sustituye(p, i, v, n)
    PROVE  MarcosInv'
<1> USE DEF Sustituye
<1>1. ConMarcos \subseteq Procesos /\ p \in Procesos
  BY DEF ConMarcos
<1>2. \A m \in Marcos : /\ ~Ocupa(p, i, m)
                        /\ Ocupa(p, v, m) => m = n
  BY DEF Ocupa
<1>3. cargadoPor \in [Marcos -> Procesos \union {NULO}]
  BY DEF MarcosInv
<1>4. cargadoPor[n] = p
  BY DEF MarcosInv, MarcosCargados
<1>5. cargadoPor' = cargadoPor
  BY <1>3, <1>4
<1>6. \A q \in ConMarcos : \A j \in Paginas(q) : Ocupa(q, j, n) => q = p /\ j = v
  BY <1>4 DEF MarcosInv, MarcosCargados, PaginasSeparadas
<1>7. MarcosTomados'
  <2> SUFFICES ASSUME NEW m \in Marcos
               PROVE  m \in bitarray' <=>
                        \E q \in ConMarcos' : \E j \in Paginas(q) : Ocupa(q, j, m)'
    BY DEF MarcosTomados
  <2>1. m \in bitarray <=> \E q \in ConMarcos : \E j \in Paginas(q) : Ocupa(q, j, m)
    BY DEF MarcosInv, MarcosTomados
  <2>2. CASE m = n
    BY <1>1, <2>1, <2>2
  <2>3. CASE m # n
    BY <1>1, <1>2, <2>1, <2>3
  <2> QED  BY <2>2, <2>3
<1>8. MarcosCargados'
  BY <1>1, <1>4, <1>5 DEF MarcosInv, MarcosCargados
<1>9. PaginasSeparadas'
  BY <1>1, <1>6 DEF MarcosInv, PaginasSeparadas
<1> QED  BY <1>3, <1>5, <1>7, <1>8, <1>9 DEF MarcosInv

\* All the pages of a process leave, and their frames are free.
LEMMA MarcosSalen ==
    ASSUME MarcosInv, NEW p \in ConMarcos, UNCHANGED cargadoPor,
           ConMarcos' \subseteq ConMarcos, ConMarcos \ {p} \subseteq ConMarcos',
           \A q \in ConMarcos' : \A j \in Paginas(q) : \A m \in Marcos :
              Ocupa(q, j, m)' <=> q # p /\ Ocupa(q, j, m),
           \A m \in Marcos :
              m \in bitarray' <=> m \in bitarray /\ ~(\E i \in Paginas(p) : Ocupa(p, i, m))
    PROVE  MarcosInv'
<1>1. MarcosTomados'
  <2> SUFFICES ASSUME NEW m \in Marcos
               PROVE  m \in bitarray' <=>
                        \E q \in ConMarcos' : \E j \in Paginas(q) : Ocupa(q, j, m)'
    BY DEF MarcosTomados
  <2>1. m \in bitarray <=> \E q \in ConMarcos : \E j \in Paginas(q) : Ocupa(q, j, m)
    BY DEF MarcosInv, MarcosTomados
  <2>2. \A q \in ConMarcos : \A j \in Paginas(q) : Ocupa(q, j, m) => cargadoPor[m] = q
    BY DEF MarcosInv, MarcosCargados
  <2>3. ASSUME m \in bitarray'
        PROVE  \E q \in ConMarcos' : \E j \in Paginas(q) : Ocupa(q, j, m)'
    <3>1. PICK q \in ConMarcos : \E j \in Paginas(q) : Ocupa(q, j, m)
      BY <2>1, <2>3
    <3>2. q # p
      BY <2>3, <3>1
    <3> QED  BY <3>1, <3>2
  <2>4. ASSUME NEW q \in ConMarcos', NEW j \in Paginas(q), Ocupa(q, j, m)'
        PROVE  m \in bitarray'
    <3>1. q # p /\ Ocupa(q, j, m) /\ q \in ConMarcos
      BY <2>4
    <3>2. m \in bitarray /\ cargadoPor[m] = q
      BY <2>1, <2>2, <3>1
    <3>3. ~(\E i \in Paginas(p) : Ocupa(p, i, m))
      BY <2>2, <3>1, <3>2
    <3> QED  BY <3>2, <3>3
  <2> QED  BY <2>3, <2>4
<1>2. MarcosCargados'
  BY DEF MarcosInv, MarcosCargados
<1>3. PaginasSeparadas'
  BY DEF MarcosInv, PaginasSeparadas
<1> QED  BY <1>1, <1>2, <1>3 DEF MarcosInv

-----------------------------------------------------------------------------
(* What every step leaves *)

ContenidoInv == NuevosInv /\ LimpiaInv /\ GuardadasInv

\* The process of an access is created and did not end.
LEMMA AccesoDeActivo ==
    ASSUME ControlInv, pcCPU # "libre"
    PROVE  /\ consulta.id = ejecutando /\ consulta.id = PCB_ACTUAL /\ consulta.id \in Procesos
           /\ fase[consulta.id] = "activo" /\ consulta.id \in ConMarcos
BY DEF ControlInv, TipoControl, EjecutandoInv, ConMarcos

\* A step that moves no page and no data keeps it all, if the TLB and the access
\* are as they should be.
LEMMA ContenidoSigue ==
    ASSUME ContenidoInv, ConMarcos' = ConMarcos, perdida \subseteq perdida',
           UNCHANGED <<cargadoPor, memoria, swap, esperado>>,
           "limpia" \notin perdida => bitarray' = bitarray,
           \A q \in Procesos :
              /\ fase'[q] \in {"nuevo", "creando"} => fase[q] \in {"nuevo", "creando"}
              /\ fase[q] \in {"nuevo", "creando", "fin"}
                   => fase'[q] \in {"nuevo", "creando", "fin"},
           \A q \in Procesos : \A j \in Paginas(q) :
              /\ entradas'[q][j].presencia = entradas[q][j].presencia
              /\ entradas'[q][j].marco = entradas[q][j].marco,
           "limpia" \notin perdida' => AccesoCargado' /\ SuspensionLimpia',
           perdida' = {} => AccesoVigente'
    PROVE  ContenidoInv'
<1>1. \A q \in Procesos : \A j \in Paginas(q) : \A m \in Marcos :
         Ocupa(q, j, m)' <=> Ocupa(q, j, m)
  BY DEF Ocupa
<1>2. NuevosInv'
  BY DEF ContenidoInv, NuevosInv
<1>3. ASSUME "limpia" \notin perdida'
      PROVE  MarcosInv'
  <2>1. "limpia" \notin perdida /\ MarcosInv
    BY <1>3 DEF ContenidoInv, LimpiaInv
  <2> QED  BY <1>1, <2>1, MarcosQuedan
<1>4. ASSUME perdida' = {}
      PROVE  PaginasGuardadas'
  <2>1. PaginasGuardadas
    BY <1>4 DEF ContenidoInv, GuardadasInv
  <2> QED  BY <1>1, <2>1 DEF PaginasGuardadas
<1> QED  BY <1>2, <1>3, <1>4 DEF ContenidoInv, LimpiaInv, GuardadasInv

\* The answer of Memoria is a frame its process loaded.
LEMMA CargadoResponde ==
    ASSUME ControlInv, DatosInv, AccesoCargado, pcCPU \in {"marco", "reemplaza"},
           Agrega(listaTLB', listaTLB, consulta.pagina, marco'),
           UNCHANGED <<PCB_ACTUAL, consulta>>,
           cargadoPor'[marco'] = consulta.id,
           \A m \in Marcos : m # marco' => cargadoPor'[m] = cargadoPor[m]
    PROVE  AccesoCargado'
<1>1. consulta.id = PCB_ACTUAL
  BY AccesoDeActivo
<1>2. \A k \in 1..Len(listaTLB) : listaTLB[k].marco \in Marcos
  <2>1. \A k \in 1..Len(listaTLB) : listaTLB[k] \in EntradasTLB
    BY ListaPropiedades DEF DatosInv, TLBInv
  <2> QED  BY <2>1 DEF EntradasTLB
<1>3. \A k \in 1..Len(listaTLB') : cargadoPor'[listaTLB'[k].marco] = PCB_ACTUAL
  BY <1>1, <1>2 DEF Agrega, AccesoCargado
<1> QED  BY <1>3 DEF AccesoCargado

\* Nothing is loaded when Memoria starts: every part holds.
LEMMA ContenidoInicial == InitMV => ContenidoInv
<1> SUFFICES ASSUME InitMV PROVE ContenidoInv
  OBVIOUS
<1> USE DEF InitMV, Init, InitMMU
<1>1. NuevosInv
  BY DEF NuevosInv, EntradaNueva
<1>2. \A p \in Procesos : \A i \in Paginas(p) : \A m \in Marcos : ~Ocupa(p, i, m)
  BY DEF Ocupa, EntradaNueva
<1>3. MarcosInv
  BY <1>2 DEF MarcosInv, MarcosTomados, MarcosCargados, PaginasSeparadas, ConMarcos
<1>4. AccesoCargado /\ SuspensionLimpia
  <2>1. \A k \in 1..Len(listaTLB) : FALSE
    BY EmptySeq
  <2> QED  BY <2>1 DEF AccesoCargado, SuspensionLimpia
<1>5. PaginasGuardadas /\ AccesoVigente
  BY DEF PaginasGuardadas, AccesoVigente
<1> QED  BY <1>1, <1>3, <1>4, <1>5 DEF ContenidoInv, LimpiaInv, GuardadasInv

\* The Kernel moves nothing; the TLB is emptied when its process changes.
LEMMA ContenidoKernel ==
    ASSUME ControlInv, DatosInv, ContenidoInv, KernelMV
    PROVE  ContenidoInv'
<1> USE DEF varsAcceso, varsHistoria, varsMMU, varsKernel, varsProc
<1>1. /\ UNCHANGED <<pcCPU, consulta, marco, entradas, bitarray, memoria, swap, esperado,
                     cargadoPor, perdida, pcKernel>>
      /\ \/ colaKernel' = colaKernel
         \/ \E r \in Peticiones : colaKernel' = Append(colaKernel, r)
  <2>1. ASSUME NEW p \in Procesos, PideCrear(p) \/ PideSuspender(p) \/ PideFin(p)
        PROVE  /\ UNCHANGED <<pcCPU, consulta, marco, entradas, bitarray, memoria, swap, esperado,
                              pcKernel>>
               /\ \E r \in Peticiones : colaKernel' = Append(colaKernel, r)
    <3>1. PICK c \in {"CREAR", "SUSP", "FIN"}, n \in Fases : Pide(c, p, n)
      BY <2>1 DEF PideCrear, PideSuspender, PideFin, Fases
    <3>2. [codigo |-> c, id |-> p] \in Peticiones
      BY DEF Peticiones
    <3> QED  BY <3>1, <3>2 DEF Pide
  <2>2. CASE \E p \in Procesos : DespachaCPU(p)
    BY <2>2 DEF DespachaCPU, Despacha
  <2>3. CASE \E p \in Procesos : Readmite(p) \/ Desbloquea(p)
    BY <2>3 DEF KernelMV, Readmite, Desbloquea, DespachaCPU
  <2>4. CASE Vuelve
    BY <2>4 DEF KernelMV, Vuelve, DespachaCPU
  <2> QED  BY <2>1, <2>2, <2>3, <2>4 DEF KernelMV, DespachaCPU
<1>2. ASSUME AccesoCargado PROVE AccesoCargado'
  <2>1. CASE \E p \in Procesos : DespachaCPU(p)
    <3>1. PICK p \in Procesos : DespachaCPU(p)
      BY <2>1
    <3>2. /\ ejecutando = NULO /\ PCB_ACTUAL' = p
          /\ listaTLB' = IF PCB_ACTUAL # p THEN <<>> ELSE listaTLB
      BY <3>1, VaciarEfecto DEF DespachaCPU, Despacha, DatosInv, VaciarTLB
    <3>3. pcCPU = "libre"
      BY <3>2 DEF ControlInv, EjecutandoInv
    <3>4. \A k \in 1..Len(<<>>) : FALSE
      BY EmptySeq
    <3>5. CASE PCB_ACTUAL = p
      BY <1>1, <1>2, <3>2, <3>3, <3>5 DEF AccesoCargado
    <3>6. CASE PCB_ACTUAL # p
      BY <1>1, <3>2, <3>3, <3>4, <3>6 DEF AccesoCargado
    <3> QED  BY <3>5, <3>6
  <2>2. CASE UNCHANGED varsMMU
    BY <1>1, <1>2, <2>2 DEF AccesoCargado
  <2> QED  BY <2>1, <2>2 DEF KernelMV
<1>3. ASSUME SuspensionLimpia PROVE SuspensionLimpia'
  <2> SUFFICES ASSUME pcKernel # "espera" PROVE colaKernel'[1] = colaKernel[1]
    BY <1>1, <1>3 DEF SuspensionLimpia
  <2>1. colaKernel \in Seq(Peticiones) /\ colaKernel # <<>>
    BY DEF ControlInv, TipoControl, ColaKernelInv
  <2>2. 1 \in 1..Len(colaKernel)
    BY <2>1, ListaPropiedades
  <2> QED  BY <1>1, <2>1, <2>2, AppendProperties
<1>4. /\ ConMarcos' = ConMarcos
      /\ \A q \in Procesos :
            /\ fase'[q] \in {"nuevo", "creando"} => fase[q] \in {"nuevo", "creando"}
            /\ fase[q] \in {"nuevo", "creando", "fin"}
                 => fase'[q] \in {"nuevo", "creando", "fin"}
  BY ConMarcosKernel
<1>5. AccesoVigente => AccesoVigente'
  BY <1>1 DEF AccesoVigente, Ocupa
<1> QED
  BY <1>1, <1>2, <1>3, <1>4, <1>5, ContenidoSigue DEF ContenidoInv, LimpiaInv, GuardadasInv

\* What the steps of hiloKernel leave alone.
LEMMA HiloKernelAjeno ==
    ASSUME ControlInv, HiloKernelMV
    PROVE  /\ UNCHANGED <<pcCPU, consulta, marco, memoria, esperado, cargadoPor, varsMMU, ejecutando>>
           /\ AccesoCargado => AccesoCargado'
           /\ perdida \subseteq perdida'
<1>1. /\ UNCHANGED <<pcCPU, consulta, marco, memoria, esperado, cargadoPor, varsMMU, ejecutando>>
      /\ perdida \subseteq perdida'
  BY DEF HiloKernelMV, SwapeaEntradasMV, CrearProceso, SwapeaEntradas, ReseteaOcupados,
     TerminaSuspension, FinProceso, varsAcceso, varsHistoria, varsProc
<1> QED  BY <1>1 DEF AccesoCargado, varsMMU

\* Creating a process writes its swap file with zeros and leaves its entries
\* without frames (server.c:70-84, memoria.c:96-134).
LEMMA ContenidoCrear ==
    ASSUME ControlInv, DatosInv, ContenidoInv, HiloKernelMV, CrearProceso
    PROVE  ContenidoInv'
<1> DEFINE p == colaKernel[1].id
           nuevas == [i \in Paginas(p) |-> EntradaNueva]
           ceros == [i \in Paginas(p) |-> "0"]
<1>1. /\ colaKernel # <<>> /\ Head(colaKernel) = colaKernel[1] /\ colaKernel[1].codigo = "CREAR"
      /\ p \in Procesos /\ fase[p] = "creando" /\ (pcCPU # "libre" => consulta.id # p)
      /\ colaKernel' = Tail(colaKernel)
  BY CabezaAjena DEF CrearProceso, Cabeza
<1>2. /\ entradas' = [entradas EXCEPT ![p] = nuevas] /\ swap' = [swap EXCEPT ![p] = ceros]
      /\ fase' = [fase EXCEPT ![p] = "activo"]
      /\ UNCHANGED <<pcKernel, bitarray>>
  BY <1>1 DEF CrearProceso
<1>3. UNCHANGED perdida
  BY <1>1 DEF HiloKernelMV, SwapeaEntradasMV, SwapeaEntradas, Cabeza, varsHistoria
<1>4. /\ UNCHANGED <<pcCPU, consulta, marco, memoria, esperado, cargadoPor>>
      /\ AccesoCargado => AccesoCargado'
  BY HiloKernelAjeno
<1>5. pcKernel = "espera"
  BY <1>1 DEF ControlInv, ColaKernelInv
<1>6. ConMarcos' = ConMarcos
  <2>1. colaKernel[1].codigo # "FIN" /\ "activo" \in Fases
    BY <1>1 DEF Fases
  <2> QED  BY <1>1, <1>2, <2>1, ConMarcosAtiende
<1>7. \A q \in Procesos : fase'[q] = IF q = p THEN "activo" ELSE fase[q]
  BY <1>1, <1>2 DEF ControlInv, TipoControl
<1>8. \A q \in Procesos : /\ q # p => entradas'[q] = entradas[q] /\ swap'[q] = swap[q]
                          /\ q = p => entradas'[q] = nuevas /\ swap'[q] = ceros
  BY <1>1, <1>2 DEF DatosInv, TipoContenido, DeCadaPagina
<1>9. \A i \in Paginas(p) : /\ ~entradas[p][i].presencia /\ esperado[p][i] = "0"
                            /\ ~nuevas[i].presencia /\ ceros[i] = "0"
  BY <1>1 DEF ContenidoInv, NuevosInv, EntradaNueva
<1> HIDE DEF nuevas, ceros
<1>10. \A q \in Procesos : \A j \in Paginas(q) : \A m \in Marcos :
          Ocupa(q, j, m)' <=> Ocupa(q, j, m)
  BY <1>8, <1>9 DEF Ocupa
<1>11. NuevosInv'
  BY <1>4, <1>7, <1>8 DEF ContenidoInv, NuevosInv
<1>12. ASSUME "limpia" \notin perdida'
       PROVE  MarcosInv' /\ AccesoCargado' /\ SuspensionLimpia'
  <2>1. MarcosInv /\ AccesoCargado
    BY <1>3, <1>12 DEF ContenidoInv, LimpiaInv
  <2>2. MarcosInv'
    BY <1>2, <1>4, <1>6, <1>10, <2>1, MarcosQuedan
  <2> QED  BY <1>2, <1>4, <1>5, <2>1, <2>2 DEF SuspensionLimpia
<1>13. ASSUME perdida' = {}
       PROVE  PaginasGuardadas' /\ AccesoVigente'
  <2>1. PaginasGuardadas /\ AccesoVigente
    BY <1>3, <1>13 DEF ContenidoInv, GuardadasInv
  <2>2. PaginasGuardadas'
    <3> SUFFICES ASSUME NEW q \in Procesos, fase'[q] \notin {"nuevo", "creando", "fin"},
                        NEW j \in Paginas(q)
                 PROVE  /\ \A m \in Marcos : Ocupa(q, j, m)' => esperado'[q][j] = memoria'[m]
                        /\ ~entradas'[q][j].presencia => esperado'[q][j] = swap'[q][j]
      BY DEF PaginasGuardadas
    <3>1. CASE q = p
      <4>1. \A m \in Marcos : ~Ocupa(q, j, m)'
        BY <1>8, <1>9, <3>1 DEF Ocupa
      <4> QED  BY <1>4, <1>8, <1>9, <3>1, <4>1
    <3>2. CASE q # p
      BY <1>4, <1>7, <1>8, <1>10, <2>1, <3>2 DEF PaginasGuardadas
    <3> QED  BY <3>1, <3>2
  <2>3. AccesoVigente'
    <3> SUFFICES ASSUME pcCPU = "acceso"
                 PROVE  Ocupa(consulta.id, consulta.pagina, marco)'
      BY <1>4 DEF AccesoVigente
    <3>1. consulta.id \in Procesos /\ consulta.id # p
      BY <1>1, AccesoDeActivo
    <3>2. entradas'[consulta.id] = entradas[consulta.id]
      BY <1>8, <3>1
    <3> QED  BY <1>4, <2>1, <3>2 DEF AccesoVigente, Ocupa
  <2> QED  BY <2>2, <2>3
<1> QED  BY <1>11, <1>12, <1>13 DEF ContenidoInv, LimpiaInv, GuardadasInv

\* The pages that are modified go to the swap file and leave; while no clean
\* one is left behind, those are all that are present.
LEMMA ContenidoSwapea ==
    ASSUME ControlInv, DatosInv, ContenidoInv, HiloKernelMV, SwapeaEntradasMV
    PROVE  ContenidoInv'
<1> DEFINE p == colaKernel[1].id
           sucias == {i \in Presentes(p) : entradas[p][i].modificado}
           quedan == [i \in Paginas(p) |->
                        IF i \in sucias THEN Swapeada(entradas[p][i]) ELSE entradas[p][i]]
           guardadas == Guardadas(p, sucias)
<1>1. /\ Head(colaKernel) = colaKernel[1] /\ p \in Procesos /\ fase[p] = "suspendiendo"
      /\ pcCPU # "libre" => consulta.id # p
  BY CabezaAjena DEF SwapeaEntradasMV, SwapeaEntradas, Cabeza
<1>2. /\ swap' = [swap EXCEPT ![p] = guardadas]
      /\ entradas' = [entradas EXCEPT ![p] = quedan]
      /\ bitarray' = bitarray \ {entradas[p][i].marco : i \in sucias}
      /\ UNCHANGED <<colaKernel, fase>>
      /\ perdida' = IF \E i \in Presentes(p) : ~entradas[p][i].modificado
                      THEN perdida \union {"limpia"} ELSE perdida
  BY <1>1 DEF SwapeaEntradasMV, SwapeaEntradas, varsProc
<1>3. /\ UNCHANGED <<pcCPU, consulta, marco, memoria, esperado, cargadoPor>>
      /\ AccesoCargado => AccesoCargado'
  BY HiloKernelAjeno
<1>4. ConMarcos' = ConMarcos /\ p \in ConMarcos
  BY <1>1, <1>2 DEF ConMarcos
<1>5. \A i \in Paginas(p) :
         /\ entradas[p][i] \in EntradasPagina
         /\ entradas[p][i].presencia => entradas[p][i].marco \in Marcos
  BY <1>1, PaginaTipo DEF DatosInv, ModificadaPresente
<1>6. ASSUME NEW i \in Paginas(p)
      PROVE  /\ i \in sucias <=> entradas[p][i].presencia /\ entradas[p][i].modificado
             /\ i \in sucias => ~quedan[i].presencia
             /\ i \notin sucias => quedan[i] = entradas[p][i]
             /\ guardadas[i] = IF i \in sucias THEN memoria[entradas[p][i].marco] ELSE swap[p][i]
  <2>1. i \in sucias <=> entradas[p][i].presencia /\ entradas[p][i].modificado
    BY DEF Presentes
  <2>2. guardadas[i] = IF i \in sucias THEN memoria[entradas[p][i].marco] ELSE swap[p][i]
    BY DEF Guardadas
  <2> HIDE DEF sucias
  <2>3. ~Swapeada(entradas[p][i]).presencia
    BY <1>5 DEF Swapeada, EntradasPagina
  <2> QED  BY <2>1, <2>2, <2>3
<1>7. \A q \in Procesos : /\ q # p => entradas'[q] = entradas[q] /\ swap'[q] = swap[q]
                          /\ q = p => entradas'[q] = quedan /\ swap'[q] = guardadas
  BY <1>1, <1>2 DEF DatosInv, TipoContenido, DeCadaPagina
<1>8. bitarray \subseteq Marcos
  BY DEF DatosInv, TipoContenido
<1>9. NuevosInv'
  BY <1>1, <1>2, <1>3, <1>7 DEF ContenidoInv, NuevosInv
<1>10. ASSUME "limpia" \notin perdida'
       PROVE  \A i \in Paginas(p) : entradas[p][i].presencia <=> i \in sucias
  <2>1. \A i \in Presentes(p) : entradas[p][i].modificado
    BY <1>2, <1>10
  <2> QED  BY <2>1, <1>6 DEF Presentes
<1>11. \A m \in Marcos : m \in bitarray' <=> m \in bitarray /\ ~(\E i \in sucias : entradas[p][i].marco = m)
  BY <1>2
<1> HIDE DEF quedan, guardadas
<1>12. ASSUME "limpia" \notin perdida'
       PROVE  MarcosInv' /\ AccesoCargado' /\ SuspensionLimpia'
  <2>1. "limpia" \notin perdida
    BY <1>2, <1>12
  <2>2. MarcosInv /\ AccesoCargado
    BY <2>1 DEF ContenidoInv, LimpiaInv
  <2>3. \A q \in Procesos : \A j \in Paginas(q) : \A m \in Marcos :
           Ocupa(q, j, m)' <=> q # p /\ Ocupa(q, j, m)
    BY <1>6, <1>7, <1>10, <1>12 DEF Ocupa
  <2>4. \A m \in Marcos :
           m \in bitarray' <=> m \in bitarray /\ ~(\E i \in Paginas(p) : Ocupa(p, i, m))
    <3>1. sucias \subseteq Paginas(p)
      BY DEF Presentes
    <3> HIDE DEF sucias
    <3> QED  BY <1>10, <1>11, <1>12, <3>1 DEF Ocupa
  <2>5. ConMarcos \subseteq Procesos
    BY DEF ConMarcos
  <2> HIDE DEF sucias, p
  <2>6. MarcosInv'
    BY <1>3, <1>4, <2>2, <2>3, <2>4, <2>5, MarcosSalen
  <2>7. SuspensionLimpia'
    BY <1>1, <1>2, <1>6, <1>7, <1>10, <1>12 DEF SuspensionLimpia, p
  <2> QED  BY <1>3, <2>2, <2>6, <2>7
<1>13. ASSUME perdida' = {}
       PROVE  PaginasGuardadas' /\ AccesoVigente'
  <2>1. perdida = {} /\ \A i \in Paginas(p) : entradas[p][i].presencia <=> i \in sucias
    BY <1>2, <1>10, <1>13
  <2>2. PaginasGuardadas /\ AccesoVigente
    BY <2>1 DEF ContenidoInv, GuardadasInv
  <2>3. PaginasGuardadas'
    <3> SUFFICES ASSUME NEW q \in Procesos, fase[q] \notin {"nuevo", "creando", "fin"},
                        NEW j \in Paginas(q)
                 PROVE  /\ \A m \in Marcos : Ocupa(q, j, m)' => esperado'[q][j] = memoria'[m]
                        /\ ~entradas'[q][j].presencia => esperado'[q][j] = swap'[q][j]
      BY <1>2 DEF PaginasGuardadas
    <3>1. /\ \A m \in Marcos : Ocupa(q, j, m) => esperado[q][j] = memoria[m]
          /\ ~entradas[q][j].presencia => esperado[q][j] = swap[q][j]
      BY <2>2 DEF PaginasGuardadas
    <3> HIDE DEF sucias
    <3>2. CASE q = p
      <4>1. \A m \in Marcos : ~Ocupa(q, j, m)'
        BY <1>6, <1>7, <2>1, <3>2 DEF Ocupa
      <4>2. swap'[q][j] = IF j \in sucias THEN memoria[entradas[p][j].marco] ELSE swap[p][j]
        BY <1>6, <1>7, <3>2
      <4>3. j \in sucias => esperado[q][j] = memoria[entradas[p][j].marco]
        BY <1>5, <2>1, <3>1, <3>2 DEF Ocupa
      <4> QED  BY <1>3, <2>1, <3>1, <3>2, <4>1, <4>2, <4>3
    <3>3. CASE q # p
      <4>1. entradas'[q] = entradas[q] /\ swap'[q] = swap[q]
        BY <1>7, <3>3
      <4> QED  BY <1>3, <3>1, <4>1 DEF Ocupa
    <3> QED  BY <3>2, <3>3
  <2>4. AccesoVigente'
    <3> SUFFICES ASSUME pcCPU = "acceso"
                 PROVE  Ocupa(consulta.id, consulta.pagina, marco)'
      BY <1>3 DEF AccesoVigente
    <3>1. consulta.id \in Procesos /\ consulta.id # p
      BY <1>1, AccesoDeActivo
    <3>2. entradas'[consulta.id] = entradas[consulta.id]
      BY <1>7, <3>1
    <3> QED  BY <1>3, <2>2, <3>2 DEF AccesoVigente, Ocupa
  <2> QED  BY <2>3, <2>4
<1> QED  BY <1>9, <1>12, <1>13 DEF ContenidoInv, LimpiaInv, GuardadasInv

\* Emptying the list of the occupied frames, the last step of a suspension,
\* finds every entry of the process already without frame (memoria.c:329-335).
LEMMA ContenidoResetea ==
    ASSUME ControlInv, DatosInv, ContenidoInv, HiloKernelMV, ReseteaOcupados
    PROVE  ContenidoInv'
<1>1. /\ pcKernel = "ocupados" /\ UNCHANGED <<colaKernel, fase, entradas, bitarray, swap>>
  BY DEF ReseteaOcupados, varsProc
<1>2. /\ UNCHANGED <<pcCPU, consulta, marco, memoria, esperado, cargadoPor>>
      /\ AccesoCargado => AccesoCargado'
      /\ perdida \subseteq perdida'
  BY HiloKernelAjeno
<1>3. ConMarcos' = ConMarcos
  BY <1>1 DEF ConMarcos
<1>4. SuspensionLimpia => SuspensionLimpia'
  BY <1>1 DEF SuspensionLimpia
<1>5. AccesoVigente => AccesoVigente'
  BY <1>1, <1>2 DEF AccesoVigente, Ocupa
<1> QED
  BY <1>1, <1>2, <1>3, <1>4, <1>5, ContenidoSigue DEF ContenidoInv, LimpiaInv, GuardadasInv

\* eliminarMarcos finds nothing to free: the pages left when they were swapped.
LEMMA ContenidoTermina ==
    ASSUME ControlInv, DatosInv, ContenidoInv, HiloKernelMV, TerminaSuspension
    PROVE  ContenidoInv'
<1> DEFINE p == colaKernel[1].id
<1>1. /\ pcKernel = "eliminar" /\ pcKernel' = "espera" /\ colaKernel' = Tail(colaKernel)
      /\ UNCHANGED <<entradas, swap>>
  BY DEF TerminaSuspension
<1>2. /\ colaKernel # <<>> /\ Head(colaKernel).id = p /\ p \in Procesos
      /\ colaKernel[1].codigo = "SUSP" /\ fase[p] = "suspendiendo"
  BY <1>1, CabezaAjena DEF ControlInv, ColaKernelInv
<1>3. fase' = [fase EXCEPT ![p] = "suspendido"] /\ bitarray' = bitarray \ MarcosDe(p)
  BY <1>2 DEF TerminaSuspension, EliminarMarcos
<1>4. /\ UNCHANGED <<pcCPU, consulta, marco, memoria, esperado, cargadoPor>>
      /\ AccesoCargado => AccesoCargado'
      /\ perdida \subseteq perdida'
  BY HiloKernelAjeno
<1>5. ConMarcos' = ConMarcos
  <2>1. colaKernel[1].codigo # "FIN" /\ "suspendido" \in Fases
    BY <1>2 DEF Fases
  <2> QED  BY <1>1, <1>2, <1>3, <2>1, ConMarcosAtiende
<1>6. \A q \in Procesos :
         /\ fase'[q] \in {"nuevo", "creando"} => fase[q] \in {"nuevo", "creando"}
         /\ fase[q] \in {"nuevo", "creando", "fin"} => fase'[q] \in {"nuevo", "creando", "fin"}
  BY <1>2, <1>3 DEF ControlInv, TipoControl
<1>7. ASSUME "limpia" \notin perdida
      PROVE  bitarray' = bitarray
  <2>1. MarcosDe(p) = {}
    BY <1>1, <1>2, <1>7 DEF ContenidoInv, LimpiaInv, SuspensionLimpia, MarcosDe, Presentes
  <2> QED  BY <1>3, <2>1
<1>8. SuspensionLimpia'
  BY <1>1 DEF SuspensionLimpia
<1>9. AccesoVigente => AccesoVigente'
  BY <1>1, <1>4 DEF AccesoVigente, Ocupa
<1> QED
  BY <1>1, <1>4, <1>5, <1>6, <1>7, <1>8, <1>9, ContenidoSigue
  DEF ContenidoInv, LimpiaInv, GuardadasInv

\* Ending a process frees the frames its entries name and no other process's
\* (server.c:101-109, memoria.c:260-290).
LEMMA ContenidoFin ==
    ASSUME ControlInv, DatosInv, ContenidoInv, HiloKernelMV, FinProceso
    PROVE  ContenidoInv'
<1> DEFINE p == colaKernel[1].id
           equis == [i \in Paginas(p) |-> "X"]
<1>1. /\ colaKernel # <<>> /\ Head(colaKernel).id = p /\ p \in Procesos
      /\ colaKernel[1].codigo = "FIN" /\ (pcCPU # "libre" => consulta.id # p)
  BY CabezaAjena DEF FinProceso, Cabeza
<1>2. fase[p] = "fin" /\ pcKernel = "espera"
  <2>1. 1 \in 1..Len(colaKernel)
    BY <1>1, ListaPropiedades DEF ControlInv, TipoControl
  <2> QED  BY <1>1, <2>1 DEF ControlInv, ColaKernelInv
<1>3. /\ swap' = [swap EXCEPT ![p] = equis] /\ bitarray' = bitarray \ MarcosDe(p)
      /\ UNCHANGED <<entradas, fase, pcKernel>>
  BY <1>1 DEF FinProceso, EliminarMarcos, varsProc
<1> HIDE DEF equis
<1>4. /\ UNCHANGED <<pcCPU, consulta, marco, memoria, esperado, cargadoPor>>
      /\ AccesoCargado => AccesoCargado'
  BY HiloKernelAjeno
<1>5. UNCHANGED perdida
  BY <1>1, SMTT(30) DEF HiloKernelMV, SwapeaEntradasMV, SwapeaEntradas, Cabeza, varsHistoria
<1>6. p \in ConMarcos /\ ConMarcos' = ConMarcos \ {p} /\ ConMarcos \subseteq Procesos
  BY ConMarcosFin DEF ConMarcos
<1>7. \A q \in Procesos : \A j \in Paginas(q) : \A m \in Marcos :
         Ocupa(q, j, m)' <=> Ocupa(q, j, m)
  BY <1>3 DEF Ocupa
<1>8. NuevosInv'
  BY <1>3, <1>4 DEF ContenidoInv, NuevosInv
<1>9. ASSUME "limpia" \notin perdida'
      PROVE  MarcosInv' /\ AccesoCargado' /\ SuspensionLimpia'
  <2>1. MarcosInv /\ AccesoCargado
    BY <1>5, <1>9 DEF ContenidoInv, LimpiaInv
  <2>2. \A m \in Marcos :
           m \in bitarray' <=> m \in bitarray /\ ~(\E i \in Paginas(p) : Ocupa(p, i, m))
    BY <1>3 DEF MarcosDe, Presentes, Ocupa
  <2>3. \A q \in ConMarcos' : \A j \in Paginas(q) : \A m \in Marcos :
           Ocupa(q, j, m)' <=> q # p /\ Ocupa(q, j, m)
    BY <1>6, <1>7
  <2> HIDE DEF p
  <2>4. MarcosInv'
    BY <1>4, <1>6, <2>1, <2>2, <2>3, MarcosSalen
  <2> QED  BY <1>2, <1>3, <1>4, <2>1, <2>4 DEF SuspensionLimpia
<1>10. ASSUME perdida' = {}
       PROVE  PaginasGuardadas' /\ AccesoVigente'
  <2>1. PaginasGuardadas /\ AccesoVigente
    BY <1>5, <1>10 DEF ContenidoInv, GuardadasInv
  <2>2. \A q \in Procesos : q # p => swap'[q] = swap[q]
    BY <1>1, <1>3 DEF DatosInv, TipoContenido, DeCadaPagina
  <2>3. PaginasGuardadas'
    BY <1>2, <1>3, <1>4, <1>7, <2>1, <2>2 DEF PaginasGuardadas
  <2> QED  BY <1>3, <1>4, <2>1, <2>3 DEF AccesoVigente, Ocupa
<1> QED  BY <1>8, <1>9, <1>10 DEF ContenidoInv, LimpiaInv, GuardadasInv

-----------------------------------------------------------------------------
(* ... and every step of hiloCPU and of the CPU *)

\* The steps of an access touch nothing of the Kernel's.
LEMMA AccesoAjeno ==
    ASSUME ControlInv, AccedeAcierto \/ AccedeFallo \/ HiloCPUMV
    PROVE  /\ UNCHANGED <<fase, colaKernel, pcKernel, PCB_ACTUAL>> /\ ConMarcos' = ConMarcos
           /\ perdida \subseteq perdida'
<1> USE DEF varsProc, varsKernel, varsMMU, varsHistoria
<1>1. CASE AccedeAcierto
  BY <1>1 DEF AccedeAcierto, ActualizarTLB, ConMarcos
<1>2. CASE AccedeFallo
  BY <1>2 DEF AccedeFallo, Accede, ConMarcos
<1>3. CASE MarcoPresenteMV \/ MarcoLibreMV \/ ReemplazaMV
  <2>1. UNCHANGED <<fase, colaKernel, pcKernel, PCB_ACTUAL>>
    BY <1>3 DEF MarcoPresenteMV, MarcoLibreMV, ReemplazaMV, MarcoPresente, MarcoLibre, Reemplaza,
       ObtieneMarco, RespondeMarco, AgregarTLB
  <2>2. perdida \subseteq perdida'
    BY <1>3 DEF MarcoPresenteMV, MarcoLibreMV, ReemplazaMV
  <2> QED  BY <2>1, <2>2 DEF ConMarcos
<1>4. CASE (MarcoFueraDeMemoria \/ PideVictima \/ RecorreClock \/ Lee \/ Escribe)
           /\ UNCHANGED <<varsMMU, varsHistoria>>
  BY <1>4 DEF MarcoFueraDeMemoria, PideVictima, RecorreClock, Lee, Escribe, TerminaAcceso, ConMarcos
<1> QED  BY <1>1, <1>2, <1>3, <1>4 DEF HiloCPUMV

\* The request for a frame, and the search for a victim.
LEMMA ContenidoBusca ==
    ASSUME ControlInv, DatosInv, ContenidoInv,
           \/ AccedeFallo
           \/ /\ MarcoFueraDeMemoria \/ PideVictima \/ RecorreClock \/ Lee
              /\ UNCHANGED <<varsMMU, varsHistoria>>
    PROVE  ContenidoInv'
<1>1. /\ UNCHANGED <<fase, colaKernel, pcKernel, PCB_ACTUAL>> /\ ConMarcos' = ConMarcos
      /\ perdida \subseteq perdida'
  BY AccesoAjeno DEF HiloCPUMV
<1>2. /\ UNCHANGED <<cargadoPor, memoria, swap, esperado, bitarray, listaTLB>>
      /\ pcCPU' # "acceso"
  BY DEF AccedeFallo, Accede, MarcoFueraDeMemoria, PideVictima, RecorreClock, Lee, TerminaAcceso,
     varsMMU, varsHistoria
<1>3. \A q \in Procesos : \A j \in Paginas(q) :
         /\ entradas'[q][j].presencia = entradas[q][j].presencia
         /\ entradas'[q][j].marco = entradas[q][j].marco
  <2>1. CASE RecorreClock /\ UNCHANGED varsMMU
    BY <2>1, DatosRecorre
  <2>2. CASE entradas' = entradas
    BY <2>2
  <2> QED
    BY <2>1, <2>2 DEF AccedeFallo, Accede, MarcoFueraDeMemoria, PideVictima, Lee, TerminaAcceso
<1>4. AccesoCargado => AccesoCargado'
  BY <1>1, <1>2 DEF AccesoCargado
<1>5. SuspensionLimpia => SuspensionLimpia'
  <2>1. pcKernel # "espera" => colaKernel[1].id \in Procesos
    BY CabezaAjena DEF ControlInv, ColaKernelInv
  <2> QED  BY <1>1, <1>3, <2>1 DEF SuspensionLimpia
<1>6. AccesoVigente'
  BY <1>2 DEF AccesoVigente
<1> QED
  BY <1>1, <1>2, <1>3, <1>4, <1>5, <1>6, ContenidoSigue DEF ContenidoInv, LimpiaInv

\* A hit: the frame of the entry is one its process loaded, and that of its
\* page if the page is still there.
LEMMA ContenidoAcierto ==
    ASSUME ControlInv, DatosInv, CoincideInv, ContenidoInv, AccedeAcierto
    PROVE  ContenidoInv'
<1> DEFINE p == ejecutando
<1>1. /\ UNCHANGED <<fase, colaKernel, pcKernel, PCB_ACTUAL>> /\ ConMarcos' = ConMarcos
      /\ perdida \subseteq perdida'
  BY AccesoAjeno
<1>2. PICK i \in Paginas(p) \intersect PaginasTLB, w \in Accesos :
         /\ consulta' = [id |-> p, pagina |-> i, esWrite |-> w]
         /\ marco' = MarcoTLB(i) /\ ActualizarTLB(i)
         /\ perdida' = IF entradas[p][i].presencia THEN perdida ELSE perdida \union {"acierto"}
  BY DEF AccedeAcierto
<1>3. /\ UNCHANGED <<entradas, bitarray, memoria, swap, esperado, cargadoPor>>
      /\ pcCPU' = "acceso" /\ p = PCB_ACTUAL
  BY DEF AccedeAcierto, ControlInv, EjecutandoInv
<1>4. /\ \A k \in 1..Len(listaTLB') :
            \E j \in 1..Len(listaTLB) : listaTLB'[k].marco = listaTLB[j].marco
      /\ \E j \in 1..Len(listaTLB) : i = listaTLB[j].pagina /\ marco' = listaTLB[j].marco
  BY <1>2, ActualizarEfecto DEF DatosInv
<1>5. PICK n \in 1..Len(listaTLB) : i = listaTLB[n].pagina /\ marco' = listaTLB[n].marco
  BY <1>4
<1>6. entradas[p][i].marco = marco'
  BY <1>3, <1>5, EntradaCoincide
<1>7. AccesoCargado => AccesoCargado'
  BY <1>1, <1>2, <1>3, <1>4, <1>5 DEF AccesoCargado
<1>8. SuspensionLimpia => SuspensionLimpia'
  BY <1>1, <1>3 DEF SuspensionLimpia
<1>9. perdida' = {} => AccesoVigente'
  BY <1>2, <1>3, <1>6 DEF AccesoVigente, Ocupa
<1> QED
  BY <1>1, <1>3, <1>7, <1>8, <1>9, ContenidoSigue DEF ContenidoInv, LimpiaInv

\* Only pages of the process in the CPU move, which is not the one being suspended.
LEMMA SuspensionSigue ==
    ASSUME ControlInv, SuspensionLimpia, pcCPU # "libre", UNCHANGED <<colaKernel, pcKernel>>,
           \A q \in Procesos : q # consulta.id =>
              \A j \in Paginas(q) : entradas'[q][j].presencia = entradas[q][j].presencia
    PROVE  SuspensionLimpia'
<1>1. pcKernel # "espera" => colaKernel[1].id \in Procesos /\ colaKernel[1].id # consulta.id
  BY CabezaAjena DEF ControlInv, ColaKernelInv
<1> QED  BY <1>1 DEF SuspensionLimpia

\* A page found present hands out the frame that already holds it
\* (memoria.c:191-203).
LEMMA ContenidoPresente ==
    ASSUME ControlInv, DatosInv, ContenidoInv, MarcoPresenteMV
    PROVE  ContenidoInv'
<1> DEFINE p == consulta.id
           i == consulta.pagina
<1>1. /\ UNCHANGED <<fase, colaKernel, pcKernel, PCB_ACTUAL>> /\ ConMarcos' = ConMarcos
      /\ perdida \subseteq perdida'
  BY AccesoAjeno DEF HiloCPUMV
<1>2. /\ pcCPU = "marco" /\ pcCPU' = "acceso" /\ entradas[p][i].presencia
      /\ marco' = entradas[p][i].marco
      /\ UNCHANGED <<consulta, bitarray, memoria, swap, esperado, cargadoPor>>
  BY DEF MarcoPresenteMV, MarcoPresente, ObtieneMarco, Entrada, varsHistoria
<1>3. /\ Agrega(listaTLB', listaTLB, consulta.pagina, marco')
      /\ \A q \in Procesos : \A j \in Paginas(q) :
            /\ entradas'[q][j].presencia = entradas[q][j].presencia
            /\ entradas'[q][j].marco = entradas[q][j].marco
  BY DatosMarcoPresente
<1>4. p \in ConMarcos /\ p \in Procesos /\ i \in Paginas(p) /\ marco' \in Marcos
  BY <1>2, AccesoDeActivo, ConsultaTipo DEF Entrada
<1>5. ASSUME "limpia" \notin perdida
      PROVE  AccesoCargado'
  <2>1. AccesoCargado /\ MarcosCargados
    BY <1>5 DEF ContenidoInv, LimpiaInv, MarcosInv
  <2>2. cargadoPor[marco'] = p
    <3> DEFINE m == marco'
    <3>1. Ocupa(p, i, m)
      BY <1>2 DEF Ocupa
    <3>2. m \in Marcos
      BY <1>4
    <3> HIDE DEF m
    <3>3. cargadoPor[m] = p
      BY <1>4, <2>1, <3>1, <3>2 DEF MarcosCargados
    <3> QED  BY <3>3 DEF m
  <2> QED  BY <1>1, <1>2, <1>3, <2>1, <2>2, CargadoResponde
<1>6. SuspensionLimpia => SuspensionLimpia'
  BY <1>1, <1>2, <1>3, SuspensionSigue
<1>7. AccesoVigente'
  BY <1>2, <1>3, <1>4 DEF AccesoVigente, Ocupa
<1> QED
  BY <1>1, <1>2, <1>3, <1>5, <1>6, <1>7, ContenidoSigue DEF ContenidoInv, LimpiaInv

\* A free frame is loaded with the page of the swap file.
LEMMA ContenidoLibre ==
    ASSUME ControlInv, DatosInv, DatosInv', ContenidoInv, MarcoLibreMV
    PROVE  ContenidoInv'
<1> DEFINE p == consulta.id
           i == consulta.pagina
<1>1. /\ UNCHANGED <<fase, colaKernel, pcKernel, PCB_ACTUAL>> /\ ConMarcos' = ConMarcos
  BY AccesoAjeno DEF HiloCPUMV
<1>2. /\ pcCPU = "marco" /\ pcCPU' = "acceso" /\ ~entradas[p][i].presencia
      /\ marco' \notin bitarray /\ bitarray' = bitarray \union {marco'}
      /\ memoria' = [memoria EXCEPT ![marco'] = swap[p][i]]
      /\ cargadoPor' = [cargadoPor EXCEPT ![marco'] = p]
      /\ UNCHANGED <<consulta, swap, esperado, perdida>>
  BY DEF MarcoLibreMV, MarcoLibre, ObtieneMarco, Entrada, TomaMarco, Carga
<1>3. /\ p \in ConMarcos /\ p \in Procesos /\ i \in Paginas(p) /\ fase[p] = "activo"
      /\ p = PCB_ACTUAL
  BY <1>2, AccesoDeActivo, ConsultaTipo
<1>4. PICK n \in Marcos : n = marco'
  BY DatosMarcoLibre
<1>5. /\ Agrega(listaTLB', listaTLB, consulta.pagina, marco')
      /\ \A q \in Procesos : \A j \in Paginas(q) :
            IF q = p /\ j = i
              THEN entradas'[q][j].presencia /\ entradas'[q][j].marco = n
              ELSE entradas'[q][j] = entradas[q][j]
  BY <1>4, DatosMarcoLibre
<1>6. \A q \in Procesos : \A j \in Paginas(q) : \A m \in Marcos :
         Ocupa(q, j, m)' <=> IF q = p /\ j = i THEN m = n ELSE Ocupa(q, j, m)
  BY <1>5 DEF Ocupa
<1>7. NuevosInv'
  BY <1>1, <1>2, <1>3, <1>5 DEF ContenidoInv, NuevosInv
<1>8. memoria \in [Marcos -> Datos]
  BY DEF DatosInv, TipoContenido
<1>9. ASSUME "limpia" \notin perdida'
      PROVE  MarcosInv' /\ AccesoCargado' /\ SuspensionLimpia'
  <2>1. MarcosInv /\ AccesoCargado /\ SuspensionLimpia
    BY <1>2, <1>9 DEF ContenidoInv, LimpiaInv
  <2>2. cargadoPor \in [Marcos -> Procesos \union {NULO}]
    BY <2>1 DEF MarcosInv
  <2>3. AccesoCargado'
    <3>1. cargadoPor'[marco'] = p /\ \A m \in Marcos : m # marco' => cargadoPor'[m] = cargadoPor[m]
      BY <1>2, <1>4, <2>2
    <3> QED  BY <1>1, <1>2, <1>5, <2>1, <3>1, CargadoResponde
  <2>4. SuspensionLimpia'
    BY <1>1, <1>2, <1>5, <2>1, SuspensionSigue
  <2>5. n \notin bitarray /\ bitarray' = bitarray \union {n} /\ cargadoPor' = [cargadoPor EXCEPT ![n] = p]
    BY <1>2, <1>4
  <2>6. \E q \in ConMarcos, j \in Paginas(p) : q = p /\ j = i
    BY <1>3
  <2>7. PICK q \in ConMarcos, j \in Paginas(p) : q = p /\ j = i
    BY <2>6
  <2>8. MarcosInv'
    BY <1>1, <1>2, <1>6, <2>1, <2>5, <2>7, MarcoEntra
  <2> QED  BY <2>3, <2>4, <2>8
<1>10. ASSUME perdida' = {}
       PROVE  PaginasGuardadas' /\ AccesoVigente'
  <2>1. PaginasGuardadas /\ MarcosTomados
    BY <1>2, <1>10 DEF ContenidoInv, GuardadasInv, LimpiaInv, MarcosInv
  <2>2. PaginasGuardadas'
    <3> SUFFICES ASSUME NEW q \in Procesos, fase[q] \notin {"nuevo", "creando", "fin"},
                        NEW j \in Paginas(q)
                 PROVE  /\ \A m \in Marcos : Ocupa(q, j, m)' => esperado[q][j] = memoria'[m]
                        /\ ~entradas'[q][j].presencia => esperado[q][j] = swap[q][j]
      BY <1>1, <1>2 DEF PaginasGuardadas
    <3>1. /\ \A m \in Marcos : Ocupa(q, j, m) => esperado[q][j] = memoria[m]
          /\ ~entradas[q][j].presencia => esperado[q][j] = swap[q][j]
      BY <2>1 DEF PaginasGuardadas
    <3>2. CASE q = p /\ j = i
      <4>1. esperado[q][j] = swap[p][i] /\ memoria'[n] = swap[p][i]
        BY <1>2, <1>4, <1>8, <3>1, <3>2
      <4> QED  BY <1>5, <1>6, <3>2, <4>1
    <3>3. CASE ~(q = p /\ j = i)
      <4>1. q \in ConMarcos
        BY DEF ConMarcos
      <4>2. ~Ocupa(q, j, n)
        BY <1>2, <1>4, <2>1, <4>1 DEF MarcosTomados
      <4>3. \A m \in Marcos : m # n => memoria'[m] = memoria[m]
        BY <1>2, <1>4, <1>8
      <4> QED  BY <1>5, <1>6, <3>1, <3>3, <4>2, <4>3
    <3> QED  BY <3>2, <3>3
  <2>3. AccesoVigente'
    BY <1>2, <1>3, <1>4, <1>5 DEF AccesoVigente, Ocupa
  <2> QED  BY <2>2, <2>3
<1> QED  BY <1>7, <1>9, <1>10 DEF ContenidoInv, LimpiaInv, GuardadasInv

\* The victim, when modified, goes to the swap file and its frame to the page.
LEMMA ContenidoReemplaza ==
    ASSUME ControlInv, DatosInv, DatosInv', ContenidoInv, ReemplazaMV
    PROVE  ContenidoInv'
<1> DEFINE p == consulta.id
           i == consulta.pagina
           v == victima
           n == entradas[p][v].marco
           swapDe == [swap[p] EXCEPT ![v] = memoria[n]]
<1>1. /\ UNCHANGED <<fase, colaKernel, pcKernel, PCB_ACTUAL>> /\ ConMarcos' = ConMarcos
      /\ perdida \subseteq perdida'
  BY AccesoAjeno DEF HiloCPUMV
<1>2. /\ pcCPU = "reemplaza" /\ pcCPU' = "acceso" /\ marco' = n
      /\ cargadoPor' = [cargadoPor EXCEPT ![n] = p]
      /\ UNCHANGED <<consulta, bitarray, esperado>>
      /\ perdida' = IF entradas[p][v].modificado THEN perdida ELSE perdida \union {"limpia"}
  <2>1. pcCPU = "reemplaza" /\ pcCPU' = "acceso" /\ marco' = n /\ UNCHANGED <<consulta, bitarray, esperado>>
    BY DEF ReemplazaMV, Reemplaza, ObtieneMarco
  <2> QED  BY <2>1 DEF ReemplazaMV
<1>3. entradas[p][v].modificado =>
         /\ swap' = [swap EXCEPT ![p] = swapDe]
         /\ memoria' = [memoria EXCEPT ![n] = swapDe[i]]
  BY DEF ReemplazaMV, Reemplaza, Carga
<1>4. /\ p \in ConMarcos /\ p \in Procesos /\ i \in Paginas(p) /\ v \in Paginas(p)
      /\ fase[p] = "activo" /\ n \in Marcos
      /\ entradas[p][v].presencia /\ ~entradas[p][i].presencia /\ v # i
  BY <1>2, AccesoDeActivo, ConsultaTipo DEF DatosInv, BusquedaInv, Entrada
<1>5. /\ Agrega(listaTLB', listaTLB, consulta.pagina, marco')
      /\ \A q \in Procesos : \A j \in Paginas(q) :
            IF q = p /\ j = i
              THEN entradas'[q][j].presencia /\ entradas'[q][j].marco = n
              ELSE /\ entradas'[q][j].marco = entradas[q][j].marco
                   /\ IF q = p /\ j = v
                        THEN entradas'[q][j].presencia =
                               (entradas[q][j].presencia /\ ~entradas[q][j].modificado)
                        ELSE entradas'[q][j].presencia = entradas[q][j].presencia
  BY <1>2, DatosReemplaza
<1>6. NuevosInv'
  BY <1>1, <1>2, <1>4, <1>5 DEF ContenidoInv, NuevosInv
<1>7. ASSUME "limpia" \notin perdida'
      PROVE  /\ entradas[p][v].modificado /\ MarcosInv /\ AccesoCargado /\ SuspensionLimpia
             /\ \A q \in Procesos : \A j \in Paginas(q) : \A m \in Marcos :
                   Ocupa(q, j, m)' <=> IF q = p /\ j = i THEN m = n
                                       ELSE Ocupa(q, j, m) /\ ~(q = p /\ j = v)
  <2>1. entradas[p][v].modificado /\ "limpia" \notin perdida
    BY <1>2, <1>7
  <2>2. MarcosInv /\ AccesoCargado /\ SuspensionLimpia
    BY <2>1 DEF ContenidoInv, LimpiaInv
  <2>3. \A q \in Procesos : \A j \in Paginas(q) : \A m \in Marcos :
           Ocupa(q, j, m)' <=> IF q = p /\ j = i THEN m = n
                               ELSE Ocupa(q, j, m) /\ ~(q = p /\ j = v)
    <3> HIDE DEF p, i, v, n
    <3> SUFFICES ASSUME NEW q \in Procesos, NEW j \in Paginas(q), NEW m \in Marcos
                 PROVE  Ocupa(q, j, m)' <=> IF q = p /\ j = i THEN m = n
                                            ELSE Ocupa(q, j, m) /\ ~(q = p /\ j = v)
      OBVIOUS
    <3>1. Ocupa(q, j, m)' <=> entradas'[q][j].presencia /\ entradas'[q][j].marco = m
      BY DEF Ocupa
    <3>2. CASE q = p /\ j = i
      <4>1. entradas'[q][j].presencia /\ entradas'[q][j].marco = n
        BY <1>5, <3>2
      <4> QED  BY <3>1, <3>2, <4>1
    <3>3. CASE ~(q = p /\ j = i) /\ q = p /\ j = v
      <4>1. entradas'[q][j].presencia = (entradas[q][j].presencia /\ ~entradas[q][j].modificado)
        BY <1>5, <3>3
      <4>2. entradas[q][j].modificado
        BY <2>1, <3>3
      <4> QED  BY <3>1, <3>3, <4>1, <4>2
    <3>4. CASE ~(q = p /\ j = i) /\ ~(q = p /\ j = v)
      <4>1. /\ entradas'[q][j].marco = entradas[q][j].marco
            /\ entradas'[q][j].presencia = entradas[q][j].presencia
        BY <1>5, <3>4
      <4> QED  BY <3>1, <3>4, <4>1 DEF Ocupa
    <3> QED  BY <3>2, <3>3, <3>4
  <2> QED  BY <2>1, <2>2, <2>3
<1>8. Ocupa(p, v, n)
  BY <1>4 DEF Ocupa
<1>9. memoria \in [Marcos -> Datos] /\ swap[p] \in [Paginas(p) -> Datos]
      /\ DeCadaPagina(swap, Datos)
  BY <1>4 DEF DatosInv, TipoContenido, DeCadaPagina
<1>10. ASSUME "limpia" \notin perdida'
       PROVE  MarcosInv' /\ AccesoCargado' /\ SuspensionLimpia'
  <2>1. cargadoPor \in [Marcos -> Procesos \union {NULO}]
    BY <1>7, <1>10 DEF MarcosInv
  <2>2. AccesoCargado'
    <3>1. cargadoPor'[marco'] = p /\ \A m \in Marcos : m # marco' => cargadoPor'[m] = cargadoPor[m]
      BY <1>2, <1>4, <2>1
    <3> QED  BY <1>1, <1>2, <1>5, <1>7, <1>10, <3>1, CargadoResponde
  <2>3. SuspensionLimpia'
    BY <1>1, <1>2, <1>5, <1>7, <1>10, SuspensionSigue
  <2>4. MarcosInv'
    <3>1. /\ p \in ConMarcos /\ i \in Paginas(p) /\ v \in Paginas(p) /\ n \in Marcos
          /\ Ocupa(p, v, n) /\ v # i /\ ~entradas[p][i].presencia
          /\ bitarray' = bitarray /\ cargadoPor' = [cargadoPor EXCEPT ![n] = p]
      BY <1>2, <1>4, <1>8
    <3>2. /\ MarcosInv /\ ConMarcos' = ConMarcos
          /\ \A q \in Procesos : \A j \in Paginas(q) : \A m \in Marcos :
                Ocupa(q, j, m)' <=> IF q = p /\ j = i THEN m = n
                                    ELSE Ocupa(q, j, m) /\ ~(q = p /\ j = v)
      BY <1>1, <1>7, <1>10
    <3>3. PICK p0 \in ConMarcos : p0 = p
      BY <3>1
    <3>4. PICK i0 \in Paginas(p0), v0 \in Paginas(p0), n0 \in Marcos : i0 = i /\ v0 = v /\ n0 = n
      BY <3>1, <3>3
    <3> HIDE DEF p, i, v, n
    <3>5. Sustituye(p0, i0, v0, n0)
      BY <3>2, <3>3, <3>4 DEF Sustituye
    <3>6. Ocupa(p0, v0, n0) /\ v0 # i0
      BY <3>1, <3>3, <3>4
    <3>7. ~entradas[p0][i0].presencia
      BY <3>1, <3>3, <3>4
    <3>8. bitarray' = bitarray /\ cargadoPor' = [cargadoPor EXCEPT ![n0] = p0]
      BY <3>1, <3>3, <3>4
    <3>9. p0 \in ConMarcos /\ i0 \in Paginas(p0) /\ v0 \in Paginas(p0) /\ n0 \in Marcos
      BY <3>3, <3>4
    <3> QED  BY <3>2, <3>5, <3>6, <3>7, <3>8, <3>9, MarcoCambia
  <2> QED  BY <2>2, <2>3, <2>4
<1>11. ASSUME perdida' = {}
       PROVE  PaginasGuardadas' /\ AccesoVigente'
  <2>1. perdida = {} /\ "limpia" \notin perdida'
    BY <1>1, <1>11
  <2>2. PaginasGuardadas
    BY <2>1 DEF ContenidoInv, GuardadasInv
  <2>3. /\ entradas[p][v].modificado /\ MarcosCargados /\ PaginasSeparadas
        /\ \A q \in Procesos : \A j \in Paginas(q) : \A m \in Marcos :
              Ocupa(q, j, m)' <=> IF q = p /\ j = i THEN m = n
                                  ELSE Ocupa(q, j, m) /\ ~(q = p /\ j = v)
    BY <1>7, <2>1 DEF MarcosInv
  <2>4. /\ \A q \in Procesos : q # p => swap'[q] = swap[q]
        /\ \A j \in Paginas(p) : swap'[p][j] = IF j = v THEN memoria[n] ELSE swap[p][j]
        /\ \A m \in Marcos : memoria'[m] = IF m = n THEN swap[p][i] ELSE memoria[m]
    <3>1. swapDe[i] = swap[p][i] /\ \A j \in Paginas(p) : swapDe[j] = IF j = v THEN memoria[n] ELSE swap[p][j]
      BY <1>4, <1>9
    <3>2. swap' = [swap EXCEPT ![p] = swapDe] /\ memoria' = [memoria EXCEPT ![n] = swapDe[i]]
      BY <1>3, <2>3
    <3> HIDE DEF swapDe, n
    <3>3. swap'[p] = swapDe /\ \A q \in Procesos : q # p => swap'[q] = swap[q]
      BY <1>4, <1>9, <3>2 DEF DeCadaPagina
    <3> QED  BY <1>9, <3>1, <3>2, <3>3
  <2>5. PaginasGuardadas'
    <3> SUFFICES ASSUME NEW q \in Procesos, fase[q] \notin {"nuevo", "creando", "fin"},
                        NEW j \in Paginas(q)
                 PROVE  /\ \A m \in Marcos : Ocupa(q, j, m)' => esperado[q][j] = memoria'[m]
                        /\ ~entradas'[q][j].presencia => esperado[q][j] = swap'[q][j]
      BY <1>1, <1>2 DEF PaginasGuardadas
    <3>1. /\ \A m \in Marcos : Ocupa(q, j, m) => esperado[q][j] = memoria[m]
          /\ ~entradas[q][j].presencia => esperado[q][j] = swap[q][j]
      BY <2>2 DEF PaginasGuardadas
    <3>2. CASE q = p /\ j = i
      <4>1. esperado[q][j] = swap[p][i]
        BY <1>4, <3>1, <3>2
      <4> QED  BY <1>4, <1>5, <2>3, <2>4, <3>2, <4>1
    <3>3. CASE q = p /\ j = v
      <4>1. esperado[q][j] = memoria[n] /\ swap'[q][j] = memoria[n]
        BY <1>4, <1>8, <2>4, <3>1, <3>3
      <4>2. \A m \in Marcos : ~Ocupa(q, j, m)'
        BY <1>4, <2>3, <3>3
      <4> QED  BY <4>1, <4>2
    <3>4. CASE ~(q = p /\ j \in {i, v})
      <4>1. q \in ConMarcos
        BY DEF ConMarcos
      <4>2. ~Ocupa(q, j, n)
        <5>1. ASSUME Ocupa(q, j, n) PROVE FALSE
          <6>1. cargadoPor[n] = q /\ cargadoPor[n] = p
            BY <1>4, <1>8, <2>3, <4>1, <5>1 DEF MarcosCargados
          <6>2. j = v
            BY <1>4, <1>8, <2>3, <4>1, <5>1, <6>1 DEF PaginasSeparadas
          <6> QED  BY <3>4, <6>1, <6>2
        <5> QED  BY <5>1
      <4>3. entradas'[q][j].presencia = entradas[q][j].presencia
        BY <1>5, <3>4
      <4>4. swap'[q][j] = swap[q][j]
        BY <2>4, <3>4
      <4>5. \A m \in Marcos : Ocupa(q, j, m)' => Ocupa(q, j, m) /\ m # n
        BY <2>3, <3>4, <4>2
      <4> QED  BY <2>4, <3>1, <4>3, <4>4, <4>5
    <3> QED  BY <3>2, <3>3, <3>4
  <2>6. AccesoVigente'
    BY <1>2, <1>4, <1>5 DEF AccesoVigente, Ocupa
  <2> QED  BY <2>5, <2>6
<1> QED  BY <1>6, <1>10, <1>11 DEF ContenidoInv, LimpiaInv, GuardadasInv

\* A write goes to the frame of its page, where there is no other.
LEMMA ContenidoEscribe ==
    ASSUME ControlInv, DatosInv, ContenidoInv, Escribe, UNCHANGED <<varsMMU, varsHistoria>>
    PROVE  ContenidoInv'
<1> DEFINE p == consulta.id
           i == consulta.pagina
           n == marco
<1>1. /\ UNCHANGED <<fase, colaKernel, pcKernel, PCB_ACTUAL>> /\ ConMarcos' = ConMarcos
  BY AccesoAjeno DEF HiloCPUMV
<1>2. /\ pcCPU = "acceso" /\ pcCPU' = "libre"
      /\ UNCHANGED <<entradas, bitarray, swap, listaTLB, cargadoPor, perdida>>
  BY DEF Escribe, TerminaAcceso, varsMMU, varsHistoria
<1>3. PICK dato \in Escritos :
         /\ memoria' = [memoria EXCEPT ![n] = dato]
         /\ esperado' = [esperado EXCEPT ![p] = [esperado[p] EXCEPT ![i] = dato]]
  BY DEF Escribe
<1>4. /\ p \in ConMarcos /\ p \in Procesos /\ i \in Paginas(p) /\ fase[p] = "activo"
      /\ n \in Marcos
  BY <1>2, AccesoDeActivo, ConsultaTipo DEF DatosInv, TipoAcceso
<1>5. memoria \in [Marcos -> Datos] /\ DeCadaPagina(esperado, Datos)
  BY DEF DatosInv, TipoContenido
<1> HIDE DEF p, i, n
<1>6. /\ esperado'[p][i] = dato /\ memoria'[n] = dato
      /\ \A m \in Marcos : m # n => memoria'[m] = memoria[m]
      /\ \A q \in Procesos : \A j \in Paginas(q) :
            ~(q = p /\ j = i) => esperado'[q][j] = esperado[q][j]
  BY <1>3, <1>4, <1>5 DEF DeCadaPagina
<1>7. NuevosInv'
  <2> SUFFICES ASSUME NEW q \in Procesos, fase[q] \in {"nuevo", "creando"}, NEW j \in Paginas(q)
               PROVE  ~entradas[q][j].presencia /\ esperado'[q][j] = "0"
    BY <1>1, <1>2 DEF NuevosInv
  <2>1. q # p
    BY <1>4
  <2> QED  BY <1>6, <2>1 DEF ContenidoInv, NuevosInv
<1>8. \A q \in Procesos : \A j \in Paginas(q) : \A m \in Marcos : Ocupa(q, j, m)' <=> Ocupa(q, j, m)
  BY <1>2 DEF Ocupa
<1>9. LimpiaInv'
  <2> SUFFICES ASSUME "limpia" \notin perdida
               PROVE  MarcosInv' /\ AccesoCargado' /\ SuspensionLimpia'
    BY <1>2 DEF LimpiaInv
  <2>1. MarcosInv /\ AccesoCargado /\ SuspensionLimpia
    BY DEF ContenidoInv, LimpiaInv
  <2>2. MarcosInv'
    BY <1>1, <1>2, <1>8, <2>1, MarcosQuedan
  <2> QED  BY <1>1, <1>2, <2>1, <2>2 DEF AccesoCargado, SuspensionLimpia
<1>10. ASSUME perdida' = {}
       PROVE  PaginasGuardadas' /\ AccesoVigente'
  <2>1. PaginasGuardadas /\ AccesoVigente /\ MarcosCargados /\ PaginasSeparadas
    BY <1>2, <1>10 DEF ContenidoInv, GuardadasInv, LimpiaInv, MarcosInv
  <2>2. Ocupa(p, i, n)
    BY <1>2, <2>1 DEF AccesoVigente, p, i, n
  <2>3. PaginasGuardadas'
    <3> SUFFICES ASSUME NEW q \in Procesos, fase[q] \notin {"nuevo", "creando", "fin"},
                        NEW j \in Paginas(q)
                 PROVE  /\ \A m \in Marcos : Ocupa(q, j, m)' => esperado'[q][j] = memoria'[m]
                        /\ ~entradas[q][j].presencia => esperado'[q][j] = swap[q][j]
      BY <1>1, <1>2 DEF PaginasGuardadas
    <3>1. /\ \A m \in Marcos : Ocupa(q, j, m) => esperado[q][j] = memoria[m]
          /\ ~entradas[q][j].presencia => esperado[q][j] = swap[q][j]
      BY <2>1 DEF PaginasGuardadas
    <3>2. CASE q = p /\ j = i
      <4>1. entradas[q][j].presencia /\ \A m \in Marcos : Ocupa(q, j, m) => m = n
        BY <2>2, <3>2 DEF Ocupa
      <4> QED  BY <1>6, <1>8, <3>2, <4>1
    <3>3. CASE ~(q = p /\ j = i)
      <4>1. q \in ConMarcos
        BY DEF ConMarcos
      <4>2. ~Ocupa(q, j, n)
        <5>1. ASSUME Ocupa(q, j, n) PROVE FALSE
          <6>1. cargadoPor[n] = q /\ cargadoPor[n] = p
            BY <1>4, <2>1, <2>2, <4>1, <5>1 DEF MarcosCargados
          <6>2. j = i
            BY <1>4, <2>1, <2>2, <4>1, <5>1, <6>1 DEF PaginasSeparadas
          <6> QED  BY <3>3, <6>1, <6>2
        <5> QED  BY <5>1
      <4> QED  BY <1>6, <1>8, <3>1, <3>3, <4>2
    <3> QED  BY <3>2, <3>3
  <2> QED  BY <1>2, <2>3 DEF AccesoVigente
<1> QED  BY <1>7, <1>9, <1>10 DEF ContenidoInv, GuardadasInv

-----------------------------------------------------------------------------
(* The theorems *)

\* Every step of MemoriaVirtual keeps the invariant.
LEMMA ContenidoPreservado ==
    ControlInv /\ DatosInv /\ DatosInv' /\ CoincideInv /\ ContenidoInv /\ [NextMV]_varsMV
        => ContenidoInv'
<1> SUFFICES ASSUME ControlInv, DatosInv, DatosInv', CoincideInv, ContenidoInv, [NextMV]_varsMV
             PROVE  ContenidoInv'
  OBVIOUS
<1>1. CASE KernelMV
  BY <1>1, ContenidoKernel
<1>2. CASE HiloKernelMV
  BY <1>2, ContenidoCrear, ContenidoSwapea, ContenidoResetea, ContenidoTermina, ContenidoFin
     DEF HiloKernelMV
<1>3. CASE AccedeAcierto
  BY <1>3, ContenidoAcierto
<1>4. CASE AccedeFallo
  BY <1>4, ContenidoBusca
<1>5. CASE HiloCPUMV
  BY <1>5, ContenidoPresente, ContenidoLibre, ContenidoReemplaza, ContenidoBusca, ContenidoEscribe
     DEF HiloCPUMV
<1>6. CASE UNCHANGED varsMV
  <2>1. UNCHANGED <<fase, colaKernel, pcKernel, pcCPU, consulta, marco, entradas, bitarray, memoria,
                    swap, esperado, listaTLB, PCB_ACTUAL, cargadoPor, perdida>>
    BY <1>6 DEF varsMV, vars, varsMMU, varsProc, varsKernel, varsAcceso
  <2>2. NuevosInv' /\ GuardadasInv'
    BY <2>1 DEF ContenidoInv, NuevosInv, GuardadasInv, PaginasGuardadas, AccesoVigente, Ocupa
  <2>3. LimpiaInv'
    BY <2>1 DEF ContenidoInv, LimpiaInv, MarcosInv, MarcosTomados, MarcosCargados, PaginasSeparadas,
       AccesoCargado, SuspensionLimpia, ConMarcos, Ocupa
  <2> QED  BY <2>2, <2>3 DEF ContenidoInv
<1> QED  BY <1>1, <1>2, <1>3, <1>4, <1>5, <1>6 DEF NextMV

\* The frames and the swap files hold what the invariant says in every reachable
\* state (memoria.c:191-330): who is in each frame, until a clean page is left in
\* one, and what each page holds, until an entry of the TLB outlives its page.
THEOREM ContenidoCorrecto == SpecMV => []ContenidoInv
<1>1. SpecMV => []CoincideInv
  BY CoincideInicial, CoincidePreservado, ControlCorrecto, DatosCorrectos, PTL DEF SpecMV
<1> QED
  BY <1>1, ContenidoInicial, ContenidoPreservado, ControlCorrecto, DatosCorrectos, PTL DEF SpecMV

\* What the invariant says of the pages and frames, in the words of Memoria.
LEMMA ContenidoConserva == DatosInv /\ ContenidoInv => DatosConservados
<1> SUFFICES ASSUME DatosInv, ContenidoInv, perdida = {}
             PROVE  PaginasConservadas /\ MarcosPropios
  BY DEF DatosConservados
<1>1. PaginasGuardadas /\ MarcosTomados /\ MarcosCargados
  BY DEF ContenidoInv, GuardadasInv, LimpiaInv, MarcosInv
<1>2. /\ bitarray \subseteq Marcos
      /\ \A p \in Procesos : \A i \in Paginas(p) :
            entradas[p][i].presencia => entradas[p][i].marco \in Marcos
  BY DEF DatosInv, TipoContenido, ModificadaPresente
<1>3. ConMarcos \subseteq Procesos
  BY DEF ConMarcos
<1>4. PaginasConservadas
  BY <1>1, <1>2 DEF PaginasConservadas, PaginasGuardadas, Vivo, Ocupa
<1>5. \A p \in ConMarcos : \A m : m \in MarcosDe(p) <=> m \in Marcos /\ \E i \in Paginas(p) : Ocupa(p, i, m)
  BY <1>2, <1>3 DEF MarcosDe, Presentes, Ocupa
<1>6. \A p, q \in ConMarcos : p # q => MarcosDe(p) \intersect MarcosDe(q) = {}
  BY <1>1, <1>5 DEF MarcosCargados
<1>7. bitarray = UNION {MarcosDe(p) : p \in ConMarcos}
  <2>1. \A m : m \in bitarray <=> \E p \in ConMarcos : m \in MarcosDe(p)
    BY <1>1, <1>2, <1>5 DEF MarcosTomados
  <2> QED  BY <2>1
<1> QED  BY <1>4, <1>6, <1>7 DEF MarcosPropios

\* Every page holds what its process wrote last, in a frame of its own, and no
\* frame is lost, until a clean page leaves its frame (memoria.c:227, 295) or an
\* entry of the TLB is used after its page left (mmu.c:161-164).
THEOREM DatosSeConservan == SpecMV => []DatosConservados
BY ContenidoCorrecto, DatosCorrectos, ContenidoConserva, PTL

\* An access goes to a frame that its own process loaded, stale entries of the
\* TLB included (mmu.c:57-58, 162), until a clean page leaves its frame.
THEOREM AccesoSiemprePropio == SpecMV => []AccesoPropio
<1>1. ContenidoInv => AccesoPropio
  BY DEF ContenidoInv, LimpiaInv, AccesoCargado, AccesoPropio
<1> QED  BY <1>1, ContenidoCorrecto, PTL
=============================================================================
