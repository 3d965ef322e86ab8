SPECIFICATION Spec
CONSTANT Failures = {"save", "clear"}
PROPERTIES ComResumes NotTrapped
