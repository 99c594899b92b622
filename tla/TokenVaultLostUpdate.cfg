SPECIFICATION Spec
CONSTANTS
  s1 = s1
  r1 = r1
  r2 = r2
  r3 = r3
  person = person
  ssn = ssn
  ann = ann
  bob = bob
  Sessions = {s1}
  Requests = {r1, r2}
  Types = {person, ssn}
  Values = {ann, bob}
  SessionOf <- OneSession
  Allowed <- Roles
  Prompts <- Bodies
INVARIANTS PromptReversible
CHECK_DEADLOCK FALSE
