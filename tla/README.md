# BRASIS in TLA+

Models, checks and proofs of the kernel of BRASIS, a 386 operating system:
`src/Nucleo` (C), and the boot code of `src/Inicial` (16-bit assembly).

## 1. Inventory

### Components

| component | state it keeps | operations | module |
|---|---|---|---|
| Physical memory, `Memoria.c`, `Processo.c` | `_Memoria_PaginasBaixas`, one byte a page: 0 free, owner number, 0x80 on the first page of a block | `AlocaPaginaFisica`, `LiberaPaginaFisica`, the sums | `MapaPaginas`, `Memoria`, `MemoriaVarredura` |
| Boot of the map, `Estagio2.asm` 713-769, `Memoria()` | the boot parameters, the map | BIOS calls, load of the image, seven interval writes | `Partida` |
| Module loader, `Executavel.c` | none between calls; the memory and the map | `Executavel_CarregarModulo` | `Executavel` |
| File layer, `SisArq.c`, `AR.c`, `DispMemoria.c` | registry of 64 slots, position of each device, the callers' items | `SisArq_Registra`, `Abre`, `VaPara`, `Leia` | `AR`, `SisArq` |
| Line reader, `String.c` | `StrBuffer_t`: 128 bytes, position, size | `StrBuffer`, `StrBuffer_LeiaLinha` | `Linhas` |
| Boot sequence, `Brasis.c`, `Inicial.asm` | the module list being read | `Inicial()`, `__start` | the caller in `Linhas`, the parameters in `Partida`, `__start` in `Inicializacao` |
| Processor, `Processador386.c` | GDT, IDT, the 8259 masks, table of IRQ handlers, tick count | registration, IRQ and exception entry, the interrupt flag | `Processador` |
| Console, `Debug.c` | `_VT_X`, `_VT_Y`, `_VT_Escape`, the screen, the card's cursor | writing, escapes, wrap, scroll | `Console` |
| Semaphore, `Semaforo.c` | one word | `Bloqueia`, `Libera` | not modelled: `AR.c` calls both around each read, and neither has an effect (section 7) |
| Boot sectors and second stage, `MinixFS.asm`, `FAT12.asm`, `Estagio2.asm` | drive and geometry, table of items, block buffer and its cache, memory from 1 MiB, `edi` | transfers with retries, zones of a file, cluster chain, search in the root, A20, load of kernel and image | `Disco`, `MinixFS`, `Estagio1`, `FAT12`, `Estagio2`, composed in `Inicializacao`, the disks in `NoDisco`, abstract in `Carga` |
| Port I/O, module stubs, SmallerC, headers, images | | | not modelled |

### Interactions

The BIOS runs one of two boot sectors, which loads the second stage at 0:0x600
and leaves it the drive and its geometry in registers. `Estagio2` asks the BIOS
for the memory, opens the A20 line, reads the names of kernel and image in
`BRASIS.cfg`, loads both above 1 MiB and jumps to `Inicial.asm` with whatever
`edi` holds; that zeroes memory there and calls `Inicial()`. That marks the page map with the sizes
it was given, registers the image as the archive `inicial://`, opens
`Modulos.cfg` in it, and for each line opens a file and loads it. The loader
calls the allocator and the file layer; a loaded module is called as a function
and gets a table of kernel functions. All of this is one thread of control, and
the models of these components interleave *calls* in every legal order and not
two calls of the same component.

The only concurrency is that of interrupts. Those of the 8259 are enabled early
(`Processador386.c:751`); their handlers are the timer's, which counts, and those
that modules register. `Processador` has them nested in every order. The
handlers of exceptions write a message on the console, and one of them, the
non-maskable interrupt, comes at any moment: `Console` lets it come between any
two accesses of the code that writes a character.

### What is hard

* a page map in which the limits, the rounding and the order of seven overlapping
  writes decide who owns a page;
* three boot programs that trust the disk and each other, a cache whose key is
  reached through a segment register that the screen output changes, a search
  whose position is not set back, and a bss zeroed at an address nobody chose;
* a first-fit search with a restart, and a release that returns too early, under
  any sequence of calls by several owners;
* a loader that checks nothing: failed allocations, tables of two sizes, pages
  reused from an earlier load;
* one device position under many items, items whose fields nobody initialised,
  names that lose their last characters;
* a reader that looks at bytes of an earlier block, or one past the buffer;
* interrupts that nest, are spurious, come before or after the tables are ready,
  and owe an end of interrupt to one controller or to two;
* a console whose cursor a handler moves in the middle of a character.

`PROJECT.json` lists each hazard at its line, with the properties that cover it.

## 2. Plan

Order of work; 1 to 8 and 10 are done.

1. `MapaPaginas`, `Memoria`, `MemoriaVarredura`: the allocator, abstract and loop
   by loop, with the refinement; proofs.
2. `Partida`: the map the allocator starts from; proofs.
3. `Executavel`: the loader over the allocator; proofs of what a load leaves in
   memory and of what it gives back.
4. `AR`, `SisArq`: the file layer; proofs of names, reads and of what `Abre` opens.
5. `Linhas`: the line reader; proofs of its buffers, letters and lines.
6. `Processador`: the order of the initialisation, the 8259 pair, the stubs, nested
   and spurious interrupts; proofs.
7. `Console`: cursor, escapes, scroll, under the non-maskable interrupt; proofs that
   nothing is written outside the screen and that each character does what it should.
8. `Disco`, `MinixFS`, `Estagio1`, `FAT12`, `Estagio2`, `NoDisco`, `Inicializacao`: the
   boot from the BIOS to `Inicial()`, shown to refine `Carga`; proofs of the cache, of
   the retries, of where the zeros of the bss go, of the zones, of the halts and of the
   refinement.
9. `Brasis`: composition of `Linhas`, `SisArq` and `Executavel` into the boot. Left.
10. Proofs: every safety property of 1 to 8 that a run checks, and the refinements of
   `Memoria` and of `Carga`.

## 3. Modules

### MapaPaginas, Memoria, MemoriaVarredura

`MapaPaginas` holds the pure operators of the map: owner and head bytes, the two
zones (below and above page 256), the places where a request fits, the marking of
a block, the release of a page, the sums. The map has one cell more than the
array, because the search and the sums read one more byte; the value there is
what the linker put (`Vizinhos`).

`Memoria` is the abstract specification: an allocation is one step that takes
the first place where the block fits, marks it and zeroes it; a release is one
step that frees the first page. `blocos` and `vazadas` are history: who holds
what, and the pages that a release leaves marked (`Memoria.c:144-146` clears the
cell before it tests it, so the loop over the rest of the block never runs).

`MemoriaVarredura` has the loops: `i`, `primeiro`, `ultimo`, `encontrado`,
`validando` and `j` are the variables of `AlocaPaginaFisica`. Its refinement
mapping counts a block as marked from the moment the search decides (`pc =
"marca"`): `ImplementaMemoria`.

Callers follow the interface: they release, once, an address they were given.

### Partida

From the BIOS answers (`Maquinas`), the end of the kernel (`Nucleos`) and the
size of the image (`Imagens`) to the map, at full scale: 4096 pages of 4096
bytes. `Intervalo` divides as the code does, by 4096 or by 4097. Memory detection
follows the three BIOS functions and keeps what the code stores in each parameter,
also when a function fails: without INT 12h it assumes 640 KiB (`Estagio2.asm:717`),
and the carry of INT 15h/88h is not tested (`Estagio2.asm:757`), so that an error code
in AX (`ax88`) is taken for a number of KiB. Both may declare memory that is absent;
`LivreEhRam` promises installed RAM where the BIOS answered, and on every machine that
nothing is free in the first 64 KiB, the video area and the hole below 16 MiB.

### Executavel

Memory in bytes, but a byte is known by where it came from (`de`, `parte`, `k`: which
byte of which part of which file) and by the corrections made on it since (`feitas`):
by which entry, on which byte of its pointer, and what was added. A pointer of size 2
has four bytes written, any other two; a relative one gets its own address added
besides that of the text; pointers are inside their section, and may overlap and lie across pages.
So "corrected once by each entry, in its width" can be said without contents.

The loader looks at no answer. The model goes on as it does: an allocation that failed
gives address 0; of a file that ends too early (`Cortes`) the rest of a block keeps
what it had; an entry that is none makes all of memory unknown. The byte after the
array is whatever was linked there (`Vizinho`); when it is 0 the page after the array
may be handed out, and that page holds memory or nothing (`Ausente`). `limpo` is
history: up to now every allocation gave memory, every read was complete and every
header was one that the code handles. The properties are stated under it.

### AR, SisArq

`AR` has the layout that ar(1) writes (external to the tree) and the way
`_Proximo` walks it: no padding byte, `"0"` cut with the padding of a name.
`SisArq` runs `Abre` iteration by iteration over a frame `quadro` (its arguments
and locals), and `Registra`, `VaPara` and `Leia` in one step. The device is the image
in whole blocks of 1 KiB, as `Estagio2.asm:1072-1074` counts it: behind the last member
there may be bytes for the beginning of a header, which `AR.c:95` takes for a header
whose size is what the stack holds (`Fantasma`). An item that `Abre`
filled has an arbitrary `Posicao` out of `Lixos`, because nothing writes it:
`_Proximo` does not, and `_Abre` writes to the parameter slot instead. When a path
has no name, `atual.Abre` is whatever the stack holds; the model answers either
way or loses control (`"perdida"`). What `_Abre` writes over the caller's frame is
not modelled.

### Linhas

The reader over blocks that `Leia` delivers; one step is one iteration. The byte
after the buffer is the low byte of `Posicao`, 128 whenever it is read. `Chama`
lets the caller leave any status between two lines, as `Brasis.c` does by using
the same `Status_t` for `Abre` and the loader. `copiados` is history: every byte
copied to a line that is a letter of the file. The lines of a file are cut at the
positions of its line feeds (`Quebras`), and its letters are those at `PosLetras`, so
that both properties compare positions and need no function over the bytes.

### Processador

The state is what decides where an interrupt goes and whether it is ended: the
next statement of `Processador()`, the IDT, the vector of line 0, the table of
handlers, the flag, the request and in-service registers and the stack of stubs.
The 8259 and the processor are external: a request comes at any time, the first
one that nothing in service holds back is taken between two statements, or is gone
when the vector is asked for (`Espuria`: 7 from the master, 15 from the slave,
with nothing in service there). `Entrada` is what the IDT has at a vector at each
moment of the initialisation. A stub tests its slot, calls the handler, ends the
interrupt in the slave, if the line is one of its own, and in the master, and
returns; a module's handler may enable interrupts in the middle. Modules register
handlers on lines other than the timer's, and only outside of handlers.

### Disco, MinixFS, Estagio1, FAT12, Estagio2, NoDisco, Inicializacao, Carga

The boot programs are cut where they share code. `Disco` is the transfer of sectors
that the three of them carry: the split of an address in cylinder, head and sector,
attempts and resets, and the halt. `MinixFS` is the way from a file and an index to
a zone, written twice in the code (`MinixFS.asm` and `Estagio2.asm`), with the
one-block cache of the second stage in front. `Estagio1` and `FAT12` are the boot
sectors, `Estagio2` the second stage after it has measured the memory, and
`Inicializacao` runs them in turn with `__start` of `Inicial.asm` at the end.

A sector is a record with one field for each way a program looks at its bytes
(superblock, items, directory entries, pointers, lines of the configuration, root
and table of FAT12). What is in memory is not bytes but *cells*, the drive and the
number of the sector each piece was read from, so that "the file as it is on the
disk" is an equality of cells. A machine (`Maquinas`) is its drives, the boot sector
it has, the method that opens its A20 line and the kind of disk it was given.

`pc` is the routine that runs; `leitura.apos` and `pedido.volta` are the return
addresses of a transfer and of a request for a zone. The segment that `DS` holds when
the cache is compared is the argument of `Acertos`: after a dot printed by `escreva`
it is the program's own (`DsDoPonto`), which is what makes the cache right although
`carrega_bloco` has changed it; with another segment the comparison may answer
anything. An item of number 0, or past the loaded part of the table, is read from
memory that nothing wrote (`Lixo`). The position in the directory goes past the block
when a block is exhausted and is not set back (`Estagio2.asm:646`), so only the first
block of the root is ever searched. `LimpaBss` zeroes `TamBss` blocks at `edi`, as
`__start` does, and not at the bss.

`NoDisco` is no part of the code: it follows an item, an entry of the root or a chain
of clusters on the disk itself (`ZonaEm`, `EntradaEm`, `Elo`), where the programs look
in buffers that they filled earlier. The properties are stated in its terms, and so
is `VolumeAssumption`, which says what the label of a machine (`defeito`) means. A disk
that does not deceive has every entry of its root naming an item of the table or none
(`Integro`), and `arquivos` is what it holds under the names in its directory and its
configuration (`Arquivado`); with FAT12, the clusters of the second stage are chained
by the tables (`Encadeado`); on one without any defect, nothing that the boot needs is
missing (`Completo`). TLC evaluates it on the 22 machines.

`Carga` is what a chain of three loads promises: at each moment a beginning of the
file is in memory as it is on the disk, the next program starts only with the file
whole, and a loader that cannot go on stops. `Promessa` maps the three files to the
second stage, the kernel and the image, the last two read *from memory* at their
addresses, so that the zeros of the bss would show. Its promise is about disks that
do not deceive (`Serve`).

### Console

`_VT_EscrevaC` in two contexts: the kernel, and the handler of the non-maskable
interrupt, which runs to its end before the kernel goes on. One step is one access
to a shared variable, with three exceptions; what a call keeps to itself (`c`, `endereco`, the loop
counters, where `_VT_Calc` returns) is in `q[context]`. The three are
the test and the reset of `_VT_Escape`, the read of a cell with the write of the cell
above it, and the four writes to the cursor's ports. The test of `_VT_X` and its reset
are two steps (`Calc`, `Zera`), and so are the reads of `_VT_Y` and `_VT_X` for the
cursor and the write (`Fim`, `Soma`, `AtualizaCursor`). A letter after a backslash is
written by a second call of `_VT_EscrevaC`, here a return to its first statement.
`limpo` and `antes` are history, for `CaractereCerto`, which compares a character
that no interrupt came into with what the user expects (`Esperado`, a direct
definition with no loops).

## 4. Runs

| run | what it shows |
|---|---|
| `memoria` | the allocator over every sequence of calls of two owners on 7 pages: blocks stay marked and disjoint, pages in use are reserved, held or lost and never two of these, the sums are right, blocks come zeroed; a process is charged with what it holds and what it lost |
| `memoria_varredura` | the loops: what is decided is right, calls end, and the whole implements `Memoria`: the first run that fits is taken and a failure means that none fits |
| `partida` | the map at the end of the boot: page 0 taken, only installed RAM free wherever the BIOS answered, kernel and image marked |
| `partida_nucleo` | violation: the last page of the kernel's data can be left free (division by 4097) |
| `executavel` | three loads in a row: the texts that run are those of the files, relocated, and stay so; data relocated when the tables have one size; bss zero; a load gives back the first page of each extra block and nothing that anyone uses |
| `executavel_dados` | violation: the data relocations are counted by the text table |
| `sisarq` | `Abre` finds the first reachable member of that trimmed name in the first disk of that name and nothing else; reads of positioned items stay in their member, in order, and are short only at its end, whatever other items do; names are stable; every `Abre` ends |
| `sisarq_aberto` | violation: after a successful `Abre` the item is closed |
| `linhas` | the reader keeps to its buffers, loses and repeats nothing, gives simple text line by line, and the loop of the boot ends on every file |
| `processador` | a line, spurious or not, enters its own stub; every end of interrupt ends its own however stubs nest; nothing stays in service; each tick counts once; every request is answered |
| `inicializacao` | 22 machines from the BIOS to the kernel: the buffer of the second stage holds the block its cache names, every request for a zone is answered with the zone of that file, a loader halts only for a reason, every boot ends or waits for a key, and the chain keeps the promise of `Carga` |
| `console` | nothing is written outside the screen wherever the handler came in; the handler ends; an uninterrupted character does what the user expects |

### Bounds

* `memoria`: 7 pages in two zones of 2 and 5, one page reserved in each and one
  owned by the kernel; requests of 0 to 3 pages. Holes of one page, runs of three
  and requests longer than a run all occur; the byte after the array is free or in
  use. Page numbers play no other part than their order, and the theorems remove
  the bound.
* `memoria_varredura`: the same map with one owner.
* `partida`: no scaling. Eight machines (512 to 640 KiB, 2 to 68 MiB, each BIOS
  function present and absent; on one INT 15h/88h fails, on one INT 12h, and both have
  less memory than the boot then declares), ten kernels that end on, just after and far after
  a page, three images.
* `executavel`: pages of 16 bytes, two entries of a table; four free pages, so that
  loads also fail, and the page after the array, which is handed out because
  `Vizinho` = 0 as in the kernel that is linked (`Nucleo/Makefile:12` puts
  `Processador386.o`, whose first variable is the GDT with its null descriptor, after
  `Memoria.o`). Seven files: tables of one size with a pointer across two pages and a
  bss, pointers of both widths, relative and overlapping, tables of two sizes, symbols
  over two pages, no tables, a data table asked short, a text table longer than the
  data table's block; each whole, empty (`Cortes` 0) or cut inside one of its parts
  (22). `MaxCargas` = 3 loads are enough for a page to be used, released and used again
  by a third.
* `sisarq`: a registry of 2 slots, two archives of one disk name, members of even
  and odd size, two members with one trimmed name; eight addresses of every shape.
  `Lixos` has a position past the member and still on the device; one archive ends 24
  bytes before its block does, so the short header occurs. Two items suffice for one
  to disturb the other; sizes and positions are real bytes (headers of 60).
* `linhas`: all files of up to 5 bytes over two letters, LF, CR and NUL, and all texts
  of 6 to 10 bytes with line feeds at any set of positions; blocks of 3 and lines of up
  to 5 bytes. A line may then lie inside one block, fill it, span two or three, and the
  last block may be short. A line feed in the first byte of a block is read like the
  others and occurs, but `LinhasCertas` leaves such files out (`Simples`).
* `processador`: the timer, line 1 of the master and line 8 of the slave with
  handlers that come and go, and lines 7 and 15, where spurious interrupts arrive;
  `MaxPedidos` = 5 requests and any set of them pending from the BIOS,
  `MaxChamadas` = 3 calls of the interface, which are enough for three stubs nested
  over both controllers.
* `console`: a screen of 2 by 2 and every sequence of a letter, a letter that means
  something after a backslash, a backslash, a line feed and a carriage return; the
  handler's message is a letter and a line feed, any number of times. On two lines
  every wrap and every line feed scrolls or is about to.

* `inicializacao`: disks of 24 blocks with 3 sectors a track, 2 heads and 8
  cylinders (a block crosses tracks and heads; the code has 9 to 18 and 256); 2 direct
  and 2 indirect zones (7 and 512), so files end in direct zones, at the last of them,
  in the indirect block and at its end; 3 items and 4 entries for half a block (16 and
  16); FAT12 tables of one sector of 12 bytes, two root sectors and 3 free sectors
  (512, 14 and 58), enough for entries odd and even, out of order, and a file too long.
  Only comparisons with these numbers and divisions by them matter, and each side of
  each comparison occurs. The machines: whole disks, kernels contiguous and scattered
  over indirect blocks, drive 1, an empty image, each method of the A20 line and none;
  a disk of each kind in `Engana`, on which a loader takes something else for a file (a
  deleted entry, an item past the loaded table, a hole, a cylinder above `CH`, a hard
  disk, a second stage too long or empty); and of each kind in `Impede`, on which it
  halts (an entry after the first block, a missing file, a file of every zone an item
  can name, another file system). Each sector fails up to the limit of attempts at any
  place of any of these boots.

`CHECK_DEADLOCK FALSE` is given where the system really stops: the boot of the map
is over, the machine has halted or reached `Inicial()`, `MaxCargas` loads are done, control was lost in `Abre`, or the requests of
`Processador` are spent.

### Fairness

`WF(Passo)` only, in `MemoriaVarredura`, `SisArq` and `Linhas`: once
a call is made, the only thread of the kernel goes on executing it, and interrupt
handlers return. No fairness is assumed of callers, except in `Linhas`, where the
caller is the `while` of `Brasis.c:81` and calls again after each line.
`Processador` has `WF(Segmento)`: the processor takes interrupts and executes, a
handler returns, and who disables interrupts enables them again; requests and calls
have none. `Inicializacao` has `WF(Passo)`, everything but the key that the second A20
method waits for (`Estagio2.asm:412`): the processor goes on, and a sector that
fails does so a bounded number of times. `Console` has weak fairness of the handler only, which nothing
interrupts; nothing is assumed of the kernel's own writing.

## 5. Proofs

For all values of the constants, under the assumptions named in each module
(`GeometriaAssumption`, `MemoriaAssumption`, `PartidaAssumption`, ...), which TLC evaluates.

* `MemoriaProvas`: lemmas on the operators of `MapaPaginas` (the first place fits,
  marking and releasing change only their pages), `TypeOK`, then an inductive invariant: blocks are marked as the
  allocator left them, each page of a block carries its owner and only its first
  the head bit, reserved pages are in no block, lost pages are marked. Disjointness
  is not inductive alone: that a new block meets no old one follows from the old
  ones being *marked*, and that a release frees nothing of another block from its
  freeing one page. Theorems `TipoCorreto`, `BlocosSeguros`, `MarcaDuradoura`,
  `ReservaSegura`, `ContabilidadeFecha`, `DonoEstavel`, `EntregaLimpa`. `ContaCerta`
  adds that a lost page keeps the number of who lost it (`PerdidasComDono`): the set
  that `_Memoria_PB_Soma` counts is then the set of a process's pages, and no
  induction over the count is needed.
* `VarreduraProvas`: the invariant of the search (the open run is free, it has
  `encontrado` pages and began at `primeiro`; every place before it does not fit)
  gives `BuscaCorreta` and `FalhaJustificada`; with it every step maps to a step of
  `Memoria` or to none: `Refinamento`.
* `NucleoProvas`, on `Partida`: after call `k` the pages of the first `k` intervals are
  marked (`Cobertura`), because no later call writes 0; with the arithmetic of one
  interval, `NucleoReservado`, `SoRamLivre`, `ImagemReservada` and `MapaPronto`.
* `NucleoProvas`, on `Processador`: before `Processador()` has finished the flag is
  clear and no stub runs, and by the time it is set the tables are whole and the
  vectors moved (`Montado`); a frame never changes its line nor its entry:
  `ProcessadorTipo`, `LinhaCerta`. What is in service is what the stubs owe (`Donos`)
  because the stack is ordered by the priority of what each stub still holds
  (`Escada`), so that the highest line in service, which an end of interrupt ends, is
  that of the stub on top: `FimDoProprio`. A spurious interrupt breaks that equality
  and not this one: each controller has at most as many lines in service as there are
  stubs that will still send it an end (`Bastam`): `NadaFica`. `Tiques` counts the
  stubs of line 0 between their entry and their call: `TickCerto`.
* `ExecutavelProvas`: as long as allocations, reads and headers were good (`limpo`),
  `Bom` holds: the blocks of the load under way are on pages of their own that were
  free when it began (`BlocosCertos`), and those blocks and the pages in use before are
  all the pages in use (`UsoCerto`), the page after the array among them. A text that
  runs is on pages of the second kind (`CarregadosCertos`), which no write of the load
  reaches: `TextoSempreIntacto`. In the blocks, a byte of the text has the corrections
  that the entries processed so far owe it (`TextoLido`), and a table's block is zero
  after its last entry (`TabelasLidas`), which is what the data loop reads when it is
  given too large a count. With tables of one size the data are corrected in the same
  way (`DadosRelocadosIguais`); pages come zeroed, and nothing is read over the bss nor
  corrected in it (`BssSempreZerada`). The extra blocks have pages of their own, so
  that giving back their first ones frees exactly these: `ExtrasDevolvidos`.
* `SisArqProvas`: the registry is filled from the front (`Prefixo`), so a new slot
  comes after every slot that answers to a name: `NomeEstavel`. The positions of the
  headers in an archive are a recursive function; that it exists, that it grows and
  that each member ends before the next header are proved from a minimal
  counterexample (a nonempty set of naturals has a least element). `ItensCertos` then
  says that an open item is a member, with its position and size: `LeituraSoDoMembro`,
  `CurtaSoNoFim`. `AbreCerta` follows `Abre`: the position above is a header and every
  member passed has another name, or the walk left the headers behind a member of odd
  size and no reachable member has the name: `AbreOPrimeiro`.
* `LinhasProvas`: `LeituraNosBuffers`. `TypeOK` is inductive; the step that needs an
  argument is the second increment of `Posicao`, after a byte compared with 13:
  at the end of the buffer that byte is `Posicao` itself and is not 13. The block in
  the buffer is the part of the file before `tirados` (`Bloco`), so each copied letter
  is the next one: `LetrasNaOrdem`. For simple text, what the buffer holds behind a
  short block is the end of the block before, or zeros (`Velhos`); as long as there is
  something to read, the answers are the lines up to a line feed and the line under
  way is what follows it (`Lendo`); afterwards the old bytes make at most the one
  answer of an unfinished last line (`Passou`): `TextoLinhaALinha`.
* `ConsoleProvas`: after the scrolling loop `_VT_Y` is on the screen (`YFirme`), and
  inside it there is a line to take back; code that was interrupted there may find
  that the handler has taken that line back already, so it counts on one less
  (`YAlto`), which is still not negative because the screen has two lines. With
  that, `ConsoleTipo` and `EscritaNaTela`; the addresses come from the lemmas on
  `y * Colunas + x`. As long as no interrupt came (`limpo`), `Claro` says, for each
  statement of the character under way, what the screen will be when it is finished
  (`ProntoDe`), and that this is what the user expects; the two loops of the scroll
  are the screens `Subindo` and `Limpando` after `i` cells: `CadaCaractereCerto`.
* `InicializacaoProvas`: which steps belong to which program (`Controle`), nothing in
  the cache before the drive is chosen (`SemCache`), a transfer for the buffer brings
  the two sectors of the block asked for (`Transferencia`), attempts made and left
  (`Contagem`); with them `CacheFiel` is inductive, whatever the disks hold:
  `CacheSempreFiel`, `SoDesisteNoLimite`. `Enderecos` follows `edi` and the sizes: a
  file has at most the zones of an item, and at `__start` `edi` is below 1 MiB or just
  after the image; hence `BssNaoApaga`. The other three theorems are about disks that do not
  deceive, as `VolumeAssumption` describes them, with nothing fixed of their contents.
  `NoVolume` says, at every step between a request and its answer, which sectors of the
  disk are in `lido` and in the buffer: of the table while it comes (`TabelaVem`) and
  afterwards (`Montada`), of the zone or of its indirect block (`Resposta`), and that the
  item asked for is in the table (`Pergunta`), which needs the root to be sound:
  `AZonaDoArquivo`. On top of it, `NoMinix` says what has been asked so far: no entry
  passed by the search has the name sought (`NaBusca`), the names are those of the
  configuration (`Nomeado`), the next zone is the one after those in memory, and what is
  in memory is a beginning of the file (`Carregados`, `NoInicial`). `NoFat` says the same
  of the chain of clusters, and that a FAT12 disk never gets past the superblock.
  `SegundoVem` joins both: the second stage runs whole. With them each step is a step of
  `Carga` or none: `AsPromessas`. A loader that halts on a disk without defects would
  have to miss a name, a zone or the magic number that those invariants say is there:
  `ErroComMotivo`.

Model-checked only: every liveness property (fairness is out of the prover's reach).
What a recursive definition of the library computes is not proved for every input
either; the models that are proved about count positions and entries with
cardinalities of sets instead, or bring their own recursive function (`AR`).
Four facts need no run of their own because
they are proved: `ReservasIntactas` and `ZeroEhFalha` (`ReservaSegura`),
`BuscaNaoPula` (`BuscaCorreta`), `FalhaSoSemEspaco` (`FalhaJustificada`).

## 6. Disagreements between code and text

Each is a run that ends in a violation, and a finding of `PROJECT.json`:

* `Memoria.c:18` divides by 4097 (`partida_nucleo`).
* `Executavel.c:153` counts the wrong table (`executavel_dados`).
* `SisArq.c:170` passes the address of the pointer (`sisarq_aberto`).

Other limits show in the properties that hold. `Memoria.c:102` searches and sums one
byte more than the array has; `Vizinhos` is that byte, and `Contabilidade` and
`ContaDoProcesso` say what follows when it is free or looks like an owner's. With BIOS function E801h
(`Estagio2.asm:744`) the size of the memory above 1 MiB is stored where
`Incluir/Brasis.h:36` announces its top, so the last MiB is reserved as if absent:
`LivreEhRam` asks only that what is free be RAM, and only where the BIOS answered: the
carry of INT 15h/88h is not tested and 640 KiB are assumed without INT 12h, so absent
memory is left free on machines without these functions. The release of the loader's
blocks (`Executavel.c:184-186`, "Liberando dados extras") returns after the first page
of each, because of `Memoria.c:146`, and does nothing for the page after the array:
every load of a file with an extra block of two pages leaks one, and no property asks
for that leak. `SoExtrasLiberados` says that what is given back is the first page and
nothing that is in use. When memory is full the allocator goes on to the page after the
array, since the byte there is the GDT's null descriptor; on a machine of 16 MiB or
less that page does not exist. `Inicial.asm:11` says that the bss
is cleared and the code zeroes as many bytes at `edi`; `CumprePromessa` and
`BssNaoApaga` say that this damages neither kernel nor image, and nothing says that
the bss is zero: the models of the kernel assume nothing of it (`Memoria()` rewrites
its map). The second stage boots the kernel from drive 0 when the BIOS booted drive
80h (`Estagio2.asm:705` keeps four bits), masks the cylinder to eight bits
(`Estagio2.asm:140`), takes a deleted entry of the boot sector's search for a file
(`MinixFS.asm:316`) and finds no entry after the first block of a directory: each has
its machine, in `Engana` or in `Impede`. `LinhasCertas` excludes a line
feed that is the first byte of a block of 128, which is copied into the line.
`AbreAchaOPrimeiro` has `Alcanca`, the members before and at the first one of odd
size, because `AR.c:117` does not step over the padding byte of ar(1).

## 7. Not modelled

The components marked so above. Most of the tree by size is the SmallerC compiler
(`src/Programas/SmallerC`), third-party code that is vendored to build the system and
takes no part in it when it runs; a compiler's correctness is also not a matter of
states and interleavings. `Bloqueia` and `Libera` (`Semaforo.c`) are called around every
read of a member (`AR.c:72,75,84`), but they test, set and clear bit 0 of `[ebp+8]`,
the slot of their argument, and not of the word it points to. The argument is an even
address, so `Bloqueia` finds the bit clear, `Libera` as well, neither waits, and no
state outlives the call: `Leia` in `SisArq` has them as nothing. The kernel has one
thread, so nothing needs them to work. `Processador_ChamaInterrupcao` and
`Processador_RegistraInterrupcao` are called by nothing. The port wrappers are single instructions.

Within modelled components: the text of messages; contents of files beyond their parts;
`Memoria_Copia`; names longer than 32 characters (`Abre` cuts them); the GDT; numbers 16
to 31 given to `Processador_RegistraIRQ`, which it writes past its table; numbers above
2^32 in archive headers; the `Protocolo` branch of `Abre`, which nothing implements; what the loader does with a
header it could not read (`Executavel.c:95-96` goes on with what the stack held), and the
entry point `Entrada`; the bits of a relocation's mask that the loader does not look at;
`SisArq_Desregistra`, `Fecha` and `Escreva`, declared in `SisArq.h` and defined nowhere.
In the boot: the words that stage 1 leaves in the interrupt vectors, lines of
`BRASIS.cfg` longer than their buffer, the flat segments of unreal mode, the geometry
that the BIOS may report wrong, and what runs after control is lost (`"perdida"`).
