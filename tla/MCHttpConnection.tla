-------------------------- MODULE MCHttpConnection --------------------------
EXTENDS HttpConnection

MCWord == {"username", "password", "ann", "pw"}

Get(path, version, keepAlive) ==
  [method |-> "GET", path |-> path, version |-> version, keepAlive |-> keepAlive, form |-> <<>>]
Post(path, form) ==
  [method |-> "POST", path |-> path, version |-> "1.1", keepAlive |-> FALSE, form |-> form]

Login(name, password) == <<<<<<"username">>, name>>, <<<<"password">>, password>>>>

MCRequest ==
  {Get("/other", "1.1", TRUE),
   Post("/login", Login(<<"ann", "+", "ann">>, <<"pw">>)),
   Post("/index", Login(<<"%41">>, <<>>))}

\* A directory with every page, and one with neither the page asked for nor
\* most of the error pages, as the repository's.
MCFileSystem ==
  {[p \in Page |-> CASE p = "." -> "dir" [] p = "/other" -> "private"
                     [] p = "/welcome.html" -> "binary" [] OTHER -> "text"],
   [p \in Page |-> CASE p = "." -> "dir" [] p = "/index.html" -> "empty"
                     [] p = "/error.html" -> "ones"
                     [] p = "/404.html" -> "private" [] OTHER -> "missing"]}
=============================================================================
