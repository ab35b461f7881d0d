-------------------------------- MODULE MCSearch --------------------------------
(***************************************************************************)
(* A small vocabulary for Search: a word and the same in capitals, a word  *)
(* it is in, a misspelling, a stop word, an identifier with an            *)
(* underscore, a word with a capital outside ASCII ("Etage" stands for     *)
(* the French one), one that grows in lower case, words of several pieces  *)
(* with and without one of two bytes, and one with a marker before it.     *)
(***************************************************************************)
EXTENDS Search

MCWords == {"ORDER", "Order", "order", "reorder", "ordre", "the", "user_entity",
            "userentity", "user", "entity", "Etage", "etage", "Wide", "wide", "index",
            "I/O", "i/o", "I", "O", "i", "o", "order/entity", "orderentity",
            "#tag", "tag"}

MCLower == [w \in MCWords |->
              CASE w \in {"Order", "ORDER"} -> "order" [] w = "I/O" -> "i/o"
                [] w = "I" -> "i" [] w = "O" -> "o" [] OTHER -> w]
MCFold == [w \in MCWords |->
             CASE w = "Etage" -> "etage" [] w = "Wide" -> "wide" [] OTHER -> MCLower[w]]
MCPlain == [w \in MCWords |-> IF w = "user_entity" THEN "userentity" ELSE w]
MCFirst == [w \in MCWords |-> IF w = "#tag" THEN "tag" ELSE MCPlain[w]]
MCSplit == [w \in MCWords |->
              CASE w = "order/entity" -> <<"order", "entity">> [] w = "I/O" -> <<"I", "O">>
                [] w = "i/o" -> <<"i", "o">> [] w = "#tag" -> <<"tag">> [] OTHER -> <<w>>]
MCParts == [w \in MCWords |->
              IF w = "user_entity" THEN <<"user", "entity">> ELSE MCSplit[w]]
MCSize == [w \in MCWords |->
             CASE w \in {"I", "O", "i", "o"} -> 1 [] w \in {"the", "I/O", "i/o", "tag"} -> 3
               [] w \in {"user", "Wide", "#tag"} -> 4
               [] w \in {"entity", "Etage", "etage"} -> 6
               [] w = "reorder" -> 7 [] w = "wide" -> 8 [] w = "userentity" -> 10
               [] w \in {"user_entity", "orderentity"} -> 11 [] w = "order/entity" -> 12
               [] OTHER -> 5]
MCInside == {<<"order", "reorder", 2>>, <<"user", "user_entity", 0>>,
             <<"entity", "user_entity", 5>>, <<"user", "userentity", 0>>,
             <<"entity", "userentity", 4>>, <<"order", "order/entity", 0>>,
             <<"entity", "order/entity", 6>>, <<"order", "orderentity", 0>>,
             <<"entity", "orderentity", 5>>, <<"I", "I/O", 0>>, <<"O", "I/O", 2>>,
             <<"i", "i/o", 0>>, <<"o", "i/o", 2>>, <<"tag", "#tag", 1>>,
             <<"tag", "etage", 2>>, <<"tag", "Etage", 2>>}

\* Of the texts that come to be compared, those at distance 1 and 2; 9 stands
\* for any distance above.  Of two texts of as many words, the words' distances
\* add up.
Apart1 == {{<<"user_entity">>, <<"userentity">>}, {<<"Order">>, <<"order">>},
           {<<"Etage">>, <<"etage">>}, {<<"Wide">>, <<"wide">>},
           {<<"order/entity">>, <<"orderentity">>}, {<<"#tag">>, <<"tag">>},
           {<<"user_entity">>, <<"user", "entity">>},
           {<<"userentity">>, <<"user", "entity">>},
           {<<"order/entity">>, <<"order", "entity">>},
           {<<"orderentity">>, <<"order", "entity">>}}
Apart2 == {{<<"order">>, <<"ordre">>}, {<<"order">>, <<"reorder">>},
           {<<"i/o">>, <<"I/O">>}, {<<"tag">>, <<"the">>}, {<<"tag">>, <<"etage">>},
           {<<"tag">>, <<"Etage">>}, {<<"#tag">>, <<"etage">>}, {<<"#tag">>, <<"Etage">>},
           {<<"Order", "entity">>, <<"orderentity">>},
           {<<"Order", "entity">>, <<"order/entity">>}}
WordDist(t, u) == IF t = u THEN 0 ELSE IF {t, u} \in Apart1 THEN 1
                  ELSE IF {t, u} \in Apart2 THEN 2 ELSE 9
MCDist(t, u) ==
  IF Len(t) = Len(u)
  THEN Total([i \in DOMAIN t |-> WordDist(<<t[i]>>, <<u[i]>>)])
  ELSE WordDist(t, u)

MCPages == {"index.md", "entity.md"}
MCPathWords == [p \in MCPages |-> IF p = "index.md" THEN <<"index">> ELSE <<"entity">>]
MCFileTitle == MCPathWords

heading(level, text) == [kind |-> "heading", level |-> level, text |-> text]
prose(text) == [kind |-> "prose", level |-> 0, text |-> text]
code(text) == [kind |-> "code", level |-> 0, text |-> text]
page(title, tags, keywords, body) ==
  [title |-> title, tags |-> tags, keywords |-> keywords, body |-> body]

MCLibrary ==
  {page(<< >>, << >>, << >>, << >>),
   page(<< >>, <<"order">>, << >>,
        <<heading(1, <<"Order">>), prose(<<"the", "order">>), code(<<"user">>)>>),
   page(<< >>, <<"order", "user">>, << >>,
        <<heading(2, <<"reorder">>), prose(<<"Etage", "Wide", "Order">>)>>),
   page(<<"user_entity">>, <<"user">>, <<"Etage">>, <<code(<<"order">>)>>),
   page(<< >>, << >>, <<"order">>,
        <<prose(<<"Wide", "Wide", "Wide", "ordre">>), heading(3, <<"userentity">>)>>),
   page(<<"Order", "entity">>, << >>, << >>,
        <<prose(<<"user_entity", "the", "etage", "reorder", "etage">>)>>),
   page(<<"order", "entity">>, << >>, <<"the">>,
        <<prose(<<"#tag", "I/O">>), prose(<<"order/entity", "#tag">>)>>)}

MCNavLists == {<< >>, <<"entity.md">>, <<"entity.md", "index.md">>,
               <<"index.md", "index.md">>}
MCQueries == {<< >>, <<"Order">>, <<"ordre">>, <<"user_entity">>, <<"order", "entity">>,
              <<"wide">>, <<"userentity">>, <<"Etage", "the">>, <<"I/O">>,
              <<"orderentity">>, <<"ordre", "entity">>, <<"#tag">>}
MCLimits == {0, 1, 2}
=============================================================================
