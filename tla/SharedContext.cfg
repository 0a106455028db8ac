CONSTANTS
  r1 = r1
  r2 = r2
  t1 = t1
  n1 = n1
  n2 = n2
  n3 = n3
  v1 = v1
  Server = Server
  Main = Main
  Null = Null
  Threads = {Main, r1, r2, t1}
  Contexts = {Server, r1, r2, n1, n2, n3}
  Fresh = {n1, n2, n3}
  Keys = {"k"}
  Values = {v1}
  Default = v1
  Types = {"string", "int"}
  TypeOf <- MCTypeOf
  Requests = {r1, r2}
  TaskOf <- MCTaskOf
  Replacing = {r2}
  Again = FALSE
SPECIFICATION Spec
INVARIANTS
  TypeOK
  NoPointerRace
  ContextInv
PROPERTIES
  GlobalSpec
