------------------------------ MODULE MCAudible ------------------------------
(* Values for the constants of Audible.                                    *)
EXTENDS Audible

\* Flags, numbers, and words that are none: 257 wraps to 1 and 1- is read as 7.
Table ==
    [w \in {"-h", "-u", "-d", "-c", "-f", "-k", "-p", "2", "3", "8", "9", "f", "1-", "257", "",
            "audible", "xxx"} |->
        CASE w = "-h" -> <<45, 104>> [] w = "-u" -> <<45, 117>> [] w = "-d" -> <<45, 100>>
          [] w = "-c" -> <<45, 99>> [] w = "-f" -> <<45, 102>> [] w = "-k" -> <<45, 107>>
          [] w = "-p" -> <<45, 112>>
          [] w = "2" -> <<50>> [] w = "3" -> <<51>> [] w = "8" -> <<56>> [] w = "9" -> <<57>>
          [] w = "f" -> <<102>> [] w = "1-" -> <<49, 45>> [] w = "257" -> <<50, 53, 55>>
          [] w = "" -> <<>>
          [] w = "audible" -> <<97, 117, 100, 105, 98, 108, 101>>
          [] w = "xxx" -> <<120, 120, 120>>]
Words == DOMAIN Table \ {"audible", "xxx"}

\* Every command line of at most four words, and some longer ones.
Lines ==
    {<<"audible">> \o rest : rest \in UNION {[1..n -> Words] : n \in 0..4}}
    \cup {<<"audible", "-u", "-f", "2", "-p", w>> : w \in Words}
    \cup {<<"audible", "-c", "-k", "f", "-p", w>> : w \in Words}

-----------------------------------------------------------------------------

Sample(x, n) == [k \in 1..n |-> ((x % Power(Base, n)) \div Power(Base, n - k)) % Base]

\* Zero, minus one, and the extremes of n bytes.
Extremes(n) == {Sample(x, n) : x \in {0, -1, Power(Base, n) \div 2 - 1, -(Power(Base, n) \div 2)}}

File(encoding, channels, data) ==
    [magic |-> AUDIO_MAGIC, data_offset |-> HeaderSize, data_size |-> Len(data),
     encoding |-> encoding, sample_rate |-> 1, channels |-> channels,
     text |-> <<>>, complete |-> TRUE, data |-> data]

Mono == UNION {{File(n + 1, 1, FlattenSeq(ss)) : ss \in UNION {[1..m -> Extremes(n)] : m \in 0..3}}
               : n \in 1..4}
Stereo == UNION {{File(n + 1, 2, r \o s \o s \o r) : r \in Extremes(n), s \in Extremes(n)}
                 : n \in 1..4}

Plain == File(2, 1, <<1, 2>>)
Foreign(words) == <<[k \in 1..words |-> "xxx"]>>

Annotated ==
    {[Plain EXCEPT !.text = Foreign(n), !.data_offset = HeaderSize + 8 * m] :
        <<n, m>> \in {<<0, 1>>, <<1, 1>>, <<2, 1>>, <<4, 3>>, <<6, 4>>, <<8, 4>>, <<8, 5>>,
                      <<12, 6>>, <<12, 7>>}}
    \cup {[Plain EXCEPT !.complete = FALSE, !.data_offset = HeaderSize + 8]}
    \cup {[Plain EXCEPT !.data_offset = x] : x \in {0, 8, 16, 20, Word - 1}}

BadHeaders ==
    {[Plain EXCEPT !.magic = x] : x \in {0, Word - 1}}
    \cup {[Plain EXCEPT !.encoding = x] : x \in {0, 1, 6, Word - 1}}
    \cup {[Plain EXCEPT !.channels = x] : x \in {0, 3, Word - 1}}

\* Unknown, too small, too large and negative sizes.
Sizes == {[File(3, 1, <<1, 2, 3, 0>>) EXCEPT !.data_size = x] :
             x \in {0, 1, 2, 3, 5, 6, 8, Word - 1}}
         \cup {[Plain EXCEPT !.data_size = x] : x \in {Word \div 2, Word - 2}}

AllFiles == Mono \cup Stereo \cup Annotated \cup BadHeaders \cup Sizes
=============================================================================
