------------------------------ MODULE MCPrograms ------------------------------
(* The requests of the clients of the C-style server, for TLC.                *)
EXTENDS Programs

Line(m, u) == <<m, u, "1.1", "cr", "lf">>
Nl == <<"cr", "lf">>
Kept == Line("GET", "/f") \o <<"KA">> \o Nl \o Nl
Request(bytes, due) == [bytes |-> bytes, ends |-> {Len(bytes)}, due |-> due]
Answer(code, keep) == [code |-> code, keep |-> keep]

MCRequests ==
  {Request(Line("GETt", "/n") \o <<"host">> \o Nl \o Nl, <<Answer("404", FALSE)>>),
   Request(Line("GET", "/p") \o Nl, <<Answer("403", FALSE)>>),
   Request(<<"POST", "/f", "1.1", "cr", "lf">>, <<Answer("400", FALSE)>>),
   Request(Line("GET", "/f") \o <<"len">> \o Nl \o Nl \o <<"b", "b">>, <<>>),
   Request(Line("GET", "/f") \o <<"cr", "KA", "cr", "lf", "host">>, <<>>),
   [bytes |-> Kept \o Line("GET", "/d") \o Nl, ends |-> {Len(Kept), Len(Kept) + 7},
    due |-> <<Answer("200", TRUE), Answer("400", FALSE)>>]}
MCResources == [u \in {"/f", "/d", "/p", "/n"} |->
                CASE u = "/f" -> "file" [] u = "/d" -> "dir" [] u = "/p" -> "private"
                  [] u = "/n" -> "none"]
=============================================================================
