----------------------------- MODULE MCExchange -----------------------------
(* Small sets of messages for Exchange.  Every layout occurs; members and  *)
(* values sit at the limits of an octet.                                   *)
EXTENDS Exchange

Pairs == {<<0, 255>>, <<256, 65535>>}

MCQuestions ==
    {Message(l, 17, f, <<>>) :
        l \in {read_coils_request, read_discrete_inputs_request,
               read_holding_registers_request, read_input_registers_request,
               write_single_register_request}, f \in Pairs}
    \cup {Message(write_single_coil_request, 255, <<258, c>>, <<>>) : c \in {on, off}}
    \cup {Message(write_multiple_coils_request, 1, <<9, 8 * Len(v)>>, v) :
             v \in {<<>>, <<129>>, <<1, 2, 3, 4, 5, 6, 255>>, <<8, 7, 6, 5, 4, 3, 2, 1>>}}
    \cup {Message(write_multiple_registers_request, 1, <<9, Len(v)>>, v) :
             v \in {<<>>, <<513>>, <<65535, 0, 256>>, <<1, 2, 3, 4>>}}
    \cup {Message(mask_write_register_request, 0, <<4, 65280, 255>>, <<>>)}
    \cup {Message(read_write_registers_request, 1, <<1, 2, 3, Len(v)>>, v) :
             v \in {<<>>, <<772>>, <<1, 65535>>}}

MCReplies ==
    {Message(l, 17, <<>>, v) :
        l \in {read_coils_response, read_discrete_inputs_response,
               read_holding_registers_response, read_input_registers_response},
        v \in {<<>>, <<205, 1>>, [i \in 1 .. 11 |-> i], [i \in 1 .. 12 |-> i]}}
    \cup {Message(l, 17, f, <<>>) :
             l \in {write_single_register_response, write_multiple_coils_response,
                    write_multiple_registers_response}, f \in Pairs}
    \cup {Message(write_single_coil_response, 255, <<258, c>>, <<>>) : c \in {on, off}}
    \cup {Message(mask_write_register_response, 0, <<4, 65280, 255>>, <<>>)}
    \cup {Message(read_write_registers_response, 17, <<>>, v) :
             v \in {<<>>, <<65280>>, <<1, 2, 3, 4, 5>>, <<1, 2, 3, 4, 5, 6>>}}
    \cup {Message(exception_response, 17, <<code, 2>>, <<>>) : code \in {1, 5, 23, 127}}
=============================================================================
