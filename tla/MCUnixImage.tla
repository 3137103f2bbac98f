---------------------------- MODULE MCUnixImage ----------------------------
(* Small programs and parameters for UnixImage; addresses are scaled down.   *)
EXTENDS UnixImage

Load(a, mem_sz, file_sz) == [type |-> "PT_LOAD", vaddr |-> a, memsz |-> mem_sz, filesz |-> file_sz]
Other(t) == [type |-> t, vaddr |-> 16, memsz |-> 4, filesz |-> 4]

\* Headers in any order, one with nothing in the file, one that ends where a
\* small stack starts, one under the stack, one over the top of the addresses,
\* none.
Plain ==
  {<<Load(32, 8, 8), Load(8, 4, 0)>>, <<Other("PT_DYNAMIC"), Load(8, 4, 4), Other("other")>>,
   <<Load(448, 4, 4), Load(0, 4, 4)>>, <<Load(500, 8, 8)>>,
   <<Load(1000, 40, 4), Load(8, 4, 4)>>, <<>>}
OtherOrder == {<<>>, <<Other("PT_DYNAMIC"), Load(8, 4, 4), Other("other")>>}
NoProgram == {}
WithBss == {<<Load(8, 8, 4)>>}

Ask(abi, arg, env) ==
  [abi |-> abi, arg |-> arg, env |-> env, auxv |-> 1, stack_alloc |-> TRUE, stack_at |-> FALSE,
   stack_addr |-> 0, stack_size |-> 64, page_size |-> 16]
Default == [Ask("gen", <<>>, <<>>) EXCEPT !.auxv = 0]

Lists == {<<>>, <<0>>, <<2>>, <<3, 1>>}
Asks ==
  {Ask(abi, arg, env) : abi \in {"gen", "unix"}, arg \in Lists, env \in Lists}

\* No stack; a stack at another place, that just fits, or that does not.
More ==
  {[Ask(abi, <<1>>, <<>>) EXCEPT !.stack_alloc = FALSE] : abi \in {"gen", "unix"}}
    \cup {[Ask("gen", <<2>>, <<1>>) EXCEPT !.stack_at = TRUE, !.stack_addr = a, !.stack_size = n] :
            a \in {100, 492}, n \in {32, 36, 40}}
AllAsks == Asks \cup More
TwoArguments == {Ask("gen", <<2, 1>>, <<>>)}
=============================================================================
