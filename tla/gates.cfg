CONSTANTS
    Bindings = {"b1", "b2", "b3", "b4"}
    Spellings = {"s1", "s2", "s3", "s4"}
    DomainRefs = {"unknown", "core.ontai.dev", "other.core.ontai.dev", "infrastructure"}
    Users = {"admin", "pipeline"}
    Registered = {"immutability", "authorship"}
SPECIFICATION Spec
INVARIANTS RootBindingSealed  RewriteAllowed
