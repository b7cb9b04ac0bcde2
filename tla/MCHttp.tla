------------------------------- MODULE MCHttp -------------------------------
(* Http for TLC: the requests that clients send and the files they ask for. *)
EXTENDS Http

Line(m, p) == <<m, p, "1.1", "cr", "lf">>
Get(p) == Line("GET", p) \o <<"KA", "cr", "lf", "cr", "lf">>
GetOnce(p) == Line("GET", p) \o <<"cr", "lf">>
Post(p) == Line("POST", p) \o <<"form", "cr", "lf", "cr", "lf", "text">>
PostKept(p) == Line("POST", p) \o <<"KA", "cr", "lf", "form", "cr", "lf", "cr", "lf", "text">>
Stray == <<"GET", "/", "1.1", "cr", "cr", "lf", "field", "cr", "KA", "cr", "lf", "cr", "lf">>

One(bytes) == [bytes |-> bytes, ends |-> {Len(bytes)}, asks |-> <<>>]
Two(m, n, asks) == [bytes |-> m \o n, ends |-> {Len(m), Len(m) + Len(n)}, asks |-> asks]

MCScripts == {One(Get("/index")), One(GetOnce("/none")), One(Post("/login")),
              One(PostKept("/register")), One(Stray), One(<<"text", "cr", "lf">>),
              Two(Get("/"), GetOnce("/secret"), <<>>)}
MCLaterScripts == {One(<<"GET", "/none", "1.1", "cr", "lf">>)}
MCPoliteScripts == {Two(Get("/index.html"), Get("/login.html"), <<"/index.html", "/login.html">>)}

Page(data) == [kind |-> "file", data |-> data]
MCFiles == [p \in {"/index.html", "/login.html", "/register.html", "/welcome.html",
                   "/error.html", "/400.html", "/403.html", "/404.html", "/secret"} |->
              CASE p = "/index.html" -> Page(<<"i1", "i2", "i3">>)
                [] p = "/secret" -> [kind |-> "private", data |-> <<"s1">>]
                [] p = "/404.html" -> Page(<<"n1", "n2">>)
                [] OTHER -> Page(<<"p1">>)]
MCFlaky == {"/welcome.html", "/404.html"}
=============================================================================
