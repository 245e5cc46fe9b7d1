------------------------------- MODULE Languages -------------------------------
(* Which language a file is taken to be in (nova_core.parsing.registry; a header   *)
(* is raised to C++ by the ingest).                                             *)

\* detect_language: EXTENSION_LANGUAGE, "none" for what is not in it.
Detect(suffix) ==
    CASE suffix \in {"py", "pyi"} -> "python"
      [] suffix \in {"c", "h"} -> "c"
      [] suffix \in {"cc", "cpp", "cxx", "hpp", "hh", "hxx", "ipp", "tpp"} -> "cpp"
      [] suffix \in {"md", "markdown", "mdx"} -> "markdown"
      [] OTHER -> "none"

\* A header is C++ in a project with C++.
LanguageFor(suffix, repoIsCpp) == IF repoIsCpp /\ suffix = "h" THEN "cpp" ELSE Detect(suffix)

================================================================================
