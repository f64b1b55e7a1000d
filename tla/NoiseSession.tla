---------------------------- MODULE NoiseSession ----------------------------
(***************************************************************************)
(* The Noise XX research runtime: two ends, each with a transport context, *)
(* a static key and perhaps the key it expects of the other, go through    *)
(* the three messages and then exchange numbered ciphertexts over a path   *)
(* that may lose, repeat or swap them.  Snow (external) is symbolic: a     *)
(* message written under one transcript is read only under the same one.   *)
(***************************************************************************)
EXTENDS Integers, Sequences, SequencesExt

CONSTANTS Contexts,   \* NoiseTransportContext values the ends may be configured with
          Keys,       \* static keys
          Sizes,      \* max_frame_size values offered to validate
          Lengths,    \* payload lengths of the frames sent
          MaxFrames,  \* frames each end sends
          MaxFaults   \* faults of the path

Ends == {"initiator", "responder"}
Peer(e) == IF e = "initiator" THEN "responder" ELSE "initiator"

VARIABLES config,   \* end -> NoiseRuntimeConfig
          hs,       \* end -> [pc, transcript, remote]
          path,     \* end -> messages on their way to it
          wrote, read,  \* end -> frames encrypted / decrypted
          nonce,    \* end -> [send, receive]
          faults

vars == <<config, hs, path, wrote, read, nonce, faults>>

FRAME_HEADER_LEN == 14
MAX_NOISE_TRANSPORT_PLAINTEXT_SIZE == 65535 - 16

\* Mutant: the frame header is forgotten in the limit.
validate_NoHeader(c) == c.max_frame_size # 0 /\ c.max_frame_size <= MAX_NOISE_TRANSPORT_PLAINTEXT_SIZE

\* NoiseRuntimeConfig::validate.
validate(c) == c.max_frame_size # 0 /\ c.max_frame_size + FRAME_HEADER_LEN <= MAX_NOISE_TRANSPORT_PLAINTEXT_SIZE

\* Mutant: the transport context is left out of the prologue.
canonical_prologue_NoContext(context) == <<"MaverickNoisePrologue", "noise_xx25519_chacha_poly_v1", "1">>

\* NoisePrologueContext::canonical_prologue: the fields are fixed but for the context,
\* and length-prefixed, so different contexts give different prologues.
canonical_prologue(context) == <<"MaverickNoisePrologue", "noise_xx25519_chacha_poly_v1", "1", context>>

\* build_handshake.
Start(e) == [pc |-> IF e = "initiator" THEN "write1" ELSE "read1",
             transcript |-> canonical_prologue(config[e].transport_context), remote |-> << >>]

Init ==
    /\ config \in [Ends -> [transport_context : Contexts, static : Keys, expected : {<< >>} \cup {<<k>> : k \in Keys},
                            max_frame_size : Sizes]]
    /\ hs = [e \in Ends |-> [pc |-> "new", transcript |-> << >>, remote |-> << >>]]
    /\ path = [e \in Ends |-> << >>]
    /\ wrote = [e \in Ends |-> << >>] /\ read = [e \in Ends |-> << >>]
    /\ nonce = [e \in Ends |-> [send |-> 0, receive |-> 0]]
    /\ faults = 0

\* NoiseInitiator::new and NoiseResponder::new.
New(e) ==
    /\ hs[e].pc = "new"
    /\ hs' = [hs EXCEPT ![e] = IF validate(config[e]) THEN Start(e) ELSE [@ EXCEPT !.pc = "error"]]
    /\ UNCHANGED <<config, path, wrote, read, nonce, faults>>

\* The tokens of the three messages; the last two carry the sender's static key and
\* authenticate the transcript so far.
Step == [write1 |-> [next |-> "read2", n |-> 1], write2 |-> [next |-> "read3", n |-> 2],
         write3 |-> [next |-> "transport", n |-> 3]]

write_handshake_message(e) ==
    /\ hs[e].pc \in DOMAIN Step
    /\ LET step == Step[hs[e].pc]
           m == [n |-> step.n, under |-> hs[e].transcript,
                 static |-> IF step.n = 1 THEN << >> ELSE <<config[e].static>>]
       IN /\ path' = [path EXCEPT ![Peer(e)] = Append(@, m)]
          /\ hs' = [hs EXCEPT ![e].pc = step.next, ![e].transcript = Append(@, <<e, step.n>>)]
    /\ UNCHANGED <<config, wrote, read, nonce, faults>>

verify_expected_remote_static(e, m) == config[e].expected # << >> => config[e].expected = m.static

Reading == [read1 |-> [next |-> "write2", n |-> 1], read2 |-> [next |-> "write3", n |-> 2],
            read3 |-> [next |-> "transport", n |-> 3]]

\* read_message_1, _2 and _3: snow refuses a message out of turn or under another
\* transcript; the first message is not authenticated.  The caller drops an end that
\* failed.
read_handshake_message(e) ==
    /\ hs[e].pc \in DOMAIN Reading /\ path[e] # << >>
    /\ LET step == Reading[hs[e].pc]
           m == Head(path[e])
           ok == /\ m.n = step.n
                 /\ m.n = 1 \/ m.under = hs[e].transcript
                 /\ m.n = 1 \/ verify_expected_remote_static(e, m)
       IN hs' = [hs EXCEPT ![e] =
                   IF ok THEN [pc |-> step.next, transcript |-> Append(@.transcript, <<Peer(e), m.n>>),
                               remote |-> m.static]
                   ELSE [@ EXCEPT !.pc = "error"]]
    /\ path' = [path EXCEPT ![e] = Tail(@)]
    /\ UNCHANGED <<config, wrote, read, nonce, faults>>

\* encrypt_frame: the frame must fit this end's limit.
encrypt_frame(e, len) ==
    /\ hs[e].pc = "transport" /\ Len(wrote[e]) < MaxFrames
    /\ len <= config[e].max_frame_size
    /\ LET f == [id |-> Len(wrote[e]) + 1, len |-> len] IN
         /\ path' = [path EXCEPT ![Peer(e)] =
                        Append(@, [n |-> 3 + nonce[e].send + 1, under |-> hs[e].transcript, frame |-> f])]
         /\ wrote' = [wrote EXCEPT ![e] = Append(@, f)]
    /\ nonce' = [nonce EXCEPT ![e].send = @ + 1]
    /\ UNCHANGED <<config, hs, read, faults>>

\* Mutant: the nonce comes with the message.
Decrypts_AnyNonce(e, m) == m.n > 3 /\ m.under = hs[e].transcript

\* read_message of the transport: only the next nonce decrypts.
Decrypts(e, m) == m.n = 3 + nonce[e].receive + 1 /\ m.under = hs[e].transcript

\* decrypt_next_frame: an error leaves the nonce as it was; a frame beyond this end's
\* own limit is decrypted, then refused.
decrypt_next_frame(e) ==
    /\ hs[e].pc = "transport" /\ path[e] # << >>
    /\ LET m == Head(path[e]) IN
         IF Decrypts(e, m)
         THEN /\ nonce' = [nonce EXCEPT ![e].receive = @ + 1]
              /\ read' = IF m.frame.len <= config[e].max_frame_size
                         THEN [read EXCEPT ![e] = Append(@, m.frame)] ELSE read
         ELSE UNCHANGED <<nonce, read>>
    /\ path' = [path EXCEPT ![e] = Tail(@)]
    /\ UNCHANGED <<config, hs, wrote, faults>>

\* What the path may do to the message that is next for an end.
Fault(e) ==
    /\ faults < MaxFaults /\ path[e] # << >>
    /\ faults' = faults + 1
    /\ \/ path' = [path EXCEPT ![e] = Tail(@)]
       \/ path' = [path EXCEPT ![e] = <<Head(@)>> \o @]
       \/ Len(path[e]) > 1 /\ path' = [path EXCEPT ![e] = <<@[2], @[1]>> \o SubSeq(@, 3, Len(@))]
    /\ UNCHANGED <<config, hs, wrote, read, nonce>>

Next == \E e \in Ends : \/ New(e) \/ write_handshake_message(e) \/ read_handshake_message(e)
                        \/ (\E len \in Lengths : encrypt_frame(e, len)) \/ decrypt_next_frame(e) \/ Fault(e)

Spec == Init /\ [][Next]_vars

-----------------------------------------------------------------------------
\* When both ends have a transport they ran it on the same carrier context, over the
\* same transcript, and each knows the other's real key, which is the one it expected.
TransportsAgree ==
    (\A e \in Ends : hs[e].pc = "transport") =>
        /\ hs["initiator"].transcript = hs["responder"].transcript
        /\ config["initiator"].transport_context = config["responder"].transport_context
        /\ \A e \in Ends : /\ hs[e].remote = <<config[Peer(e)].static>>
                           /\ config[e].expected \in {<< >>, hs[e].remote}

\* A subsequence of what was written, in order and without repetition, whatever the
\* path does: a lost message silences what follows, a repeated or early one is refused.
ReadInOrder ==
    \A e \in Ends :
        /\ \A i \in DOMAIN read[e] : read[e][i] \in Range(wrote[Peer(e)])
        /\ \A i \in DOMAIN read[e] : i > 1 => read[e][i].id > read[e][i - 1].id

\* Every frame an end agrees to encrypt has, with its header and its tag, a length that
\* the two-byte prefix can express: encode_noise_message never has to refuse one.
MessageFits == \A e \in Ends : \A i \in DOMAIN wrote[e] : FRAME_HEADER_LEN + wrote[e][i].len + 16 <= 65535
=============================================================================
